---- MODULE Spec2Model ----
(***************************************************************************)
(* Site scoring engine of gridsite: computeLocationScore and               *)
(* estimateTimeToPower of lib/scoring.ts, with the helpers they call, and  *)
(* the proximity analysis of components/Map.tsx with its debounced re-run. *)
(*                                                                         *)
(* Number representation.  JavaScript numbers are carried as integers in   *)
(* fixed point, with NaN as a reserved value that every arithmetic and     *)
(* comparison operator treats as JavaScript does:                          *)
(*   - scores             : thousandths of a point      (50.0 = 50000)     *)
(*   - dimension subtotals: 1e-5 point (score * percent weight)            *)
(*   - composite subtotal : 1e-7 point (dimension * percent weight)        *)
(*   - latitude           : arc units of 0.1 mile along the meridian       *)
(*                          (1 degree = R*PI/180 = 69.09 mi); the data of  *)
(*                          the proximity analysis are on a finer grid,    *)
(*                          arc units of 0.01 mile                         *)
(*   - longitude          : tenths of a degree                             *)
(*   - LMP price          : cents per MWh;   MW, kV, line counts: units    *)
(* All features of a data set lie on the meridian of the query point, so   *)
(* haversineDistanceMiles reduces to R * |dLat| and is exact in tenths of  *)
(* a mile.  Arithmetic is exact (no binary floating point rounding).       *)
(***************************************************************************)
EXTENDS Integers, Sequences, FiniteSets, TLC

VARIABLES
    substationsData,        \* GeoJSON FeatureCollection .features  (argument)
    queueWithdrawalsData,   \* GeoJSON FeatureCollection .features  (argument)
    lmpNodesData,           \* features, or Null when not supplied  (argument)
    atcData,                \* features, or Null when not supplied  (argument)
    arg,                    \* [lng, lat] of the last computeLocationScore call, or Null
    result,                 \* what that call returned: a ScoredSite or Null
    calc,                   \* the call's local variables at its return, or Null
    ttpSite,                \* the ScoredSite handed to estimateTimeToPower, or Null
    ttp,                    \* what estimateTimeToPower returned (its tier), or Null
    legacyResult            \* what the four-argument computeLocationScore returned, or Null

\* The state of MapComponent (components/Map.tsx)
VARIABLES
    proximityResult,        \* useState: the displayed ProximityResult, or Null
    proximityRadius,        \* useState: the slider's value, in miles
    proximityLoading,       \* useState
    substationsCache,       \* useRef: the fetched features, or Null
    transmissionLinesCache, \* useRef: the fetched features, or Null
    queueWithdrawalsCache,  \* useRef: the fetched features, or Null
    radiusCircle,           \* data of the map's radius-circle source, or Null
    proxCalc,               \* locals of the last runProximityAnalysis at its end, or Null
    timeouts,               \* the pending timers set by setTimeout
    cleanup,                \* the timer the radius effect's cleanup will clear, or Null
    nextTimeoutId,          \* the id setTimeout will return next
    now,                    \* the clock, in steps of 100 ms
    lmpNodesCache,          \* useRef: the fetched features, or Null
    starClickRadius,        \* proximityRadius as the star click handler's closure holds it
    calls,                  \* the suspended calls of scoreLocation and runProximityAnalysis
    nextCallId,             \* the number the next such call gets (order of issue)
    downloads,              \* per data set, the fetches started so far
    rejected,               \* the calls whose promise was rejected, with the data set
    completed               \* the analyses that reached setProximityResult, in that order

scoringVars == <<substationsData, queueWithdrawalsData, lmpNodesData, atcData,
                 arg, result, calc, ttpSite, ttp, legacyResult>>

mapVars == <<proximityResult, proximityRadius, proximityLoading, substationsCache,
             transmissionLinesCache, queueWithdrawalsCache, radiusCircle, proxCalc,
             timeouts, cleanup, nextTimeoutId, now, lmpNodesCache, starClickRadius,
             calls, nextCallId, downloads, rejected, completed>>

\* The part of it the loading of the files and the click handlers add
loadVars == <<lmpNodesCache, starClickRadius, calls, nextCallId, downloads, rejected,
              completed>>

vars == <<scoringVars, mapVars>>

Null == [k |-> "null"]

----------------------------------------------------------------------------
(* JavaScript numbers *)

Infinity == 1073741824
NaN == 0 - Infinity - 1

IsNaN(x) == x = NaN

\* a < b, a <= b, a >= b, a > b: false as soon as an operand is NaN
Lt(a, b) == ~IsNaN(a) /\ ~IsNaN(b) /\ a < b
Le(a, b) == ~IsNaN(a) /\ ~IsNaN(b) /\ a <= b
Ge(a, b) == ~IsNaN(a) /\ ~IsNaN(b) /\ a >= b
Gt(a, b) == ~IsNaN(a) /\ ~IsNaN(b) /\ a > b

Add(a, b) == IF IsNaN(a) \/ IsNaN(b) THEN NaN ELSE a + b
Mul(a, b) == IF IsNaN(a) \/ IsNaN(b) THEN NaN ELSE a * b

MathMax(a, b) == IF IsNaN(a) \/ IsNaN(b) THEN NaN ELSE IF a >= b THEN a ELSE b
MathMin(a, b) == IF IsNaN(a) \/ IsNaN(b) THEN NaN ELSE IF a <= b THEN a ELSE b
MathAbs(a) == IF IsNaN(a) THEN NaN ELSE IF a < 0 THEN 0 - a ELSE a

\* Math.max(lo, Math.min(hi, v))
Clamp(lo, hi, v) == MathMax(lo, MathMin(hi, v))

\* Math.round(v * 10) / 10 of a value v given in units of 1/unit; the result
\* is in thousandths.  Math.round rounds halves towards +Infinity, which is
\* floor(10 * v / unit + 1/2); a value in units of 1 or 1/10 is already a
\* multiple of 0.1.
Round1(v, unit) ==
    IF IsNaN(v) THEN NaN
    ELSE IF unit % 20 = 0 THEN ((v + unit \div 20) \div (unit \div 10)) * 100
    ELSE v * (1000 \div unit)

----------------------------------------------------------------------------
(* Feature properties: absent (undefined or null), a number, or a string   *)
(* (a sequence of one-character strings).                                  *)

Absent == [k |-> "absent", n |-> 0, s |-> <<>>]
Num(n) == [k |-> "num", n |-> n, s |-> <<>>]
Str(s) == [k |-> "str", n |-> 0, s |-> s]

Digits == [c \in {"0", "1", "2", "3", "4", "5", "6", "7", "8", "9"} |->
             CASE c = "0" -> 0 [] c = "1" -> 1 [] c = "2" -> 2 [] c = "3" -> 3
               [] c = "4" -> 4 [] c = "5" -> 5 [] c = "6" -> 6 [] c = "7" -> 7
               [] c = "8" -> 8 [] c = "9" -> 9]

RECURSIVE ParseDigits(_, _)
ParseDigits(s, acc) ==
    IF s = <<>> THEN acc
    ELSE IF Head(s) \in DOMAIN Digits
         THEN ParseDigits(Tail(s), 10 * acc + Digits[Head(s)])
         ELSE NaN

\* Number(p) for p != null: a number is itself, "" is 0, a string of decimal
\* digits is its value, any other string is NaN.
Number(p) == IF p.k = "num" THEN p.n ELSE ParseDigits(p.s, 0)

\* p != null ? Number(p) : dflt
NumberOr(p, dflt) == IF p.k = "absent" THEN dflt ELSE Number(p)

----------------------------------------------------------------------------
(* Geometry *)

\* Latitude units per ten degrees: R * PI / 180 = 69.09 miles per degree.
UnitsPerTenDegrees == 6909

\* lat >= d, lat < d and lat <= d for a latitude d given in tenths of a degree
LatGe(lat, d10) == lat * 100 >= d10 * UnitsPerTenDegrees
LatLt(lat, d10) == lat * 100 < d10 * UnitsPerTenDegrees
LatLe(lat, d10) == lat * 100 <= d10 * UnitsPerTenDegrees

\* Great-circle distance in the arc units of its latitudes.  With lon1 = lon2
\* the haversine term a is sin^2(dLat/2), c is |dLat| in radians and the
\* result R * |dLat|.
haversineDistanceMiles(lat1, lon1, lat2, lon2) == MathAbs(lat2 - lat1)

FLOOD_RISK_STATES == {"LA", "FL", "TX", "MS", "AL", "SC", "NC"}
MODERATE_FLOOD_STATES == {"NJ", "DE", "MD", "VA", "GA", "CT", "RI", "MA", "HI"}

BROADBAND_COVERAGE ==
    [s \in {"NJ"} |-> 97] @@ [s \in {"CT", "MA"} |-> 96] @@
    [s \in {"RI", "MD"} |-> 95] @@ [s \in {"DE"} |-> 94] @@
    [s \in {"NY", "VA"} |-> 93] @@ [s \in {"NH"} |-> 92] @@
    [s \in {"PA", "FL"} |-> 91] @@
    [s \in {"IL", "OH", "CA", "WA"} |-> 90] @@
    [s \in {"CO", "GA", "TX"} |-> 89] @@ [s \in {"MI", "NC", "MN"} |-> 88] @@
    [s \in {"OR", "WI"} |-> 87] @@ [s \in {"IN", "AZ", "SC"} |-> 86] @@
    [s \in {"TN", "UT", "NV"} |-> 85] @@ [s \in {"MO"} |-> 84] @@
    [s \in {"KY", "IA"} |-> 83] @@ [s \in {"AL", "KS"} |-> 82] @@
    [s \in {"NE", "LA"} |-> 81] @@ [s \in {"OK", "HI"} |-> 80] @@
    [s \in {"ID"} |-> 79] @@ [s \in {"SD"} |-> 78] @@ [s \in {"ND"} |-> 77] @@
    [s \in {"WV", "AR"} |-> 76] @@ [s \in {"NM", "ME"} |-> 75] @@
    [s \in {"VT"} |-> 74] @@ [s \in {"MT"} |-> 73] @@
    [s \in {"WY", "MS"} |-> 72] @@ [s \in {"AK"} |-> 70]

isCoastalLocation(lat, lon, state) ==
    IF state \in FLOOD_RISK_STATES
    THEN CASE state = "FL" -> TRUE
           [] state = "LA" -> LatLt(lat, 310) \/ lon < -910
           [] state = "TX" -> lon > -970 /\ LatLt(lat, 305)
           [] state = "MS" -> LatLt(lat, 315)
           [] state = "AL" -> LatLt(lat, 315)
           [] state \in {"NC", "SC"} -> lon > -800
           [] OTHER -> TRUE
    ELSE FALSE

\* Mutant: the upper boundaries are exclusive (< instead of <=).
computeLmpScore_ExclusiveBounds(avgLmp) ==
    IF Lt(avgLmp, 2000) THEN 95000
    ELSE IF Lt(avgLmp, 2500) THEN 90000
    ELSE IF Lt(avgLmp, 3000) THEN 80000
    ELSE IF Lt(avgLmp, 3500) THEN 70000
    ELSE IF Lt(avgLmp, 4000) THEN 60000
    ELSE IF Lt(avgLmp, 4500) THEN 50000
    ELSE IF Lt(avgLmp, 5000) THEN 40000
    ELSE IF Lt(avgLmp, 5500) THEN 30000
    ELSE 20000

\* avgLmp in cents per MWh; the score in thousandths
computeLmpScore(avgLmp) ==
    IF Le(avgLmp, 2000) THEN 95000
    ELSE IF Le(avgLmp, 2500) THEN 90000
    ELSE IF Le(avgLmp, 3000) THEN 80000
    ELSE IF Le(avgLmp, 3500) THEN 70000
    ELSE IF Le(avgLmp, 4000) THEN 60000
    ELSE IF Le(avgLmp, 4500) THEN 50000
    ELSE IF Le(avgLmp, 5000) THEN 40000
    ELSE IF Le(avgLmp, 5500) THEN 30000
    ELSE 20000

\* Mutant: the lower boundaries are exclusive (> instead of >=).
computeAtcScore_ExclusiveBounds(avgAtcMw) ==
    IF Gt(avgAtcMw, 500) THEN 95000
    ELSE IF Gt(avgAtcMw, 300) THEN 85000
    ELSE IF Gt(avgAtcMw, 200) THEN 75000
    ELSE IF Gt(avgAtcMw, 100) THEN 60000
    ELSE IF Gt(avgAtcMw, 50) THEN 45000
    ELSE IF Gt(avgAtcMw, 25) THEN 30000
    ELSE 20000

\* avgAtcMw in MW; the score in thousandths
computeAtcScore(avgAtcMw) ==
    IF Ge(avgAtcMw, 500) THEN 95000
    ELSE IF Ge(avgAtcMw, 300) THEN 85000
    ELSE IF Ge(avgAtcMw, 200) THEN 75000
    ELSE IF Ge(avgAtcMw, 100) THEN 60000
    ELSE IF Ge(avgAtcMw, 50) THEN 45000
    ELSE IF Ge(avgAtcMw, 25) THEN 30000
    ELSE 20000

\* The scan of findNearestAtcInterface / findNearestLmpNode from feature i on:
\* best is [dist, node], node being Null until a Point feature is met.
RECURSIVE ScanNearestPoint(_, _, _, _, _)
ScanNearestPoint(features, i, lat, lng, best) ==
    IF i > Len(features) THEN best
    ELSE LET f == features[i]
             d == haversineDistanceMiles(lat, lng, f.lat, lng)
         IN  IF f.type # "Point"
             THEN ScanNearestPoint(features, i + 1, lat, lng, best)
             ELSE IF Lt(d, best.dist)
                  THEN ScanNearestPoint(features, i + 1, lat, lng,
                                        [dist |-> d, node |-> f])
                  ELSE ScanNearestPoint(features, i + 1, lat, lng, best)

findNearestAtcInterface(lat, lng, data) ==
    LET best == ScanNearestPoint(data, 1, lat, lng, [dist |-> Infinity, node |-> Null])
        avgAtcMw == NumberOr(best.node.avg_atc_mw, 0)
    IN  IF best.node = Null THEN Null
        ELSE [k |-> "atc", name |-> best.node.name, avgAtcMw |-> avgAtcMw,
              atcScore |-> computeAtcScore(avgAtcMw)]

findNearestLmpNode(lat, lng, data) ==
    LET best == ScanNearestPoint(data, 1, lat, lng, [dist |-> Infinity, node |-> Null])
        avgLmp == NumberOr(best.node.avg_lmp, 4000)
    IN  IF best.node = Null THEN Null
        ELSE [k |-> "lmp", name |-> best.node.name, avgLmp |-> avgLmp,
              lmpScore |-> computeLmpScore(avgLmp)]

----------------------------------------------------------------------------
(* computeLocationScore *)

\* The substation loop from feature i on: best is [dist, sub], sub being Null
\* until a feature passes both tests.
RECURSIVE ScanSubstations(_, _, _, _, _)
ScanSubstations(subFeatures, i, lat, lng, best) ==
    IF i > Len(subFeatures) THEN best
    ELSE LET sf == subFeatures[i]
             maxVolt == NumberOr(sf.MAX_VOLT, 0)
             dist == haversineDistanceMiles(lat, lng, sf.lat, lng)
         IN  IF Lt(maxVolt, 345)
             THEN ScanSubstations(subFeatures, i + 1, lat, lng, best)
             ELSE IF sf.type # "Point"
             THEN ScanSubstations(subFeatures, i + 1, lat, lng, best)
             ELSE IF Lt(dist, best.dist)
             THEN ScanSubstations(subFeatures, i + 1, lat, lng,
                     [dist |-> dist,
                      sub |-> [k |-> "sub",
                               name |-> sf.NAME,
                               maxVolt |-> maxVolt,
                               lines |-> NumberOr(sf.LINES, 0),
                               state |-> sf.State]])
             ELSE ScanSubstations(subFeatures, i + 1, lat, lng, best)

\* Math.abs(qCoords[1] - lat) > degDelta, degDelta = 20 / 69.0 degrees
OutsideLatBand(qLat, lat) == MathAbs(qLat - lat) * 690 > 20 * UnitsPerTenDegrees

\* The queue-withdrawal loop from feature i on: acc is [qwCount, qwTotalMW].
\* The longitude band test never rejects a feature on the query's meridian
\* (0 > lonDelta is false, lonDelta being positive).
RECURSIVE ScanQueueWithdrawals(_, _, _, _, _)
ScanQueueWithdrawals(qwFeatures, i, lat, lng, acc) ==
    IF i > Len(qwFeatures) THEN acc
    ELSE LET qf == qwFeatures[i]
             qDist == haversineDistanceMiles(lat, lng, qf.lat, lng)
         IN  IF qf.type # "Point"
             THEN ScanQueueWithdrawals(qwFeatures, i + 1, lat, lng, acc)
             ELSE IF OutsideLatBand(qf.lat, lat)
             THEN ScanQueueWithdrawals(qwFeatures, i + 1, lat, lng, acc)
             ELSE IF Le(qDist, 200)
             THEN ScanQueueWithdrawals(qwFeatures, i + 1, lat, lng,
                     [qwCount |-> acc.qwCount + 1,
                      qwTotalMW |-> Add(acc.qwTotalMW, NumberOr(qf.total_mw, 0))])
             ELSE ScanQueueWithdrawals(qwFeatures, i + 1, lat, lng, acc)

\* Mutant: the lower clamp Math.max(0, ...) is missing.
DistScore_NoFloor(bestDist) == MathMin(100000, Add(100000, Mul(bestDist, -200)))

\* distScore: bestDist in tenths of a mile
DistScore(bestDist) == Clamp(0, 100000, Add(100000, Mul(bestDist, -200)))

VoltScore(maxVolt) ==
    IF Ge(maxVolt, 765) THEN 100000
    ELSE IF Ge(maxVolt, 500) THEN 85000
    ELSE IF Ge(maxVolt, 345) THEN 70000
    ELSE 60000

\* Mutant: the upper clamp Math.min(100, ...) is missing.
LinesScore_NoCap(lines) == MathMax(0, Mul(lines, 12500))

\* lines / 8 * 100
LinesScore(lines) == Clamp(0, 100000, Mul(lines, 12500))

\* Mutant: the MW bonus is not capped at 20.
QwScore_UncappedBonus(qwCount, qwTotalMW) ==
    IF qwCount = 0 THEN 30000
    ELSE LET countScore == Clamp(30000, 100000, 30000 + qwCount * 5000)
             mwBonus == MathMax(0, Mul(qwTotalMW, 4))
         IN  Clamp(0, 100000, Add(countScore, mwBonus))

\* qwTotalMW / 5000 * 20 is 4 thousandths per MW
QwScore(qwCount, qwTotalMW) ==
    IF qwCount = 0 THEN 30000
    ELSE LET countScore == Clamp(30000, 100000, 30000 + qwCount * 5000)
             mwBonus == Clamp(0, 20000, Mul(qwTotalMW, 4))
         IN  Clamp(0, 100000, Add(countScore, mwBonus))

\* Mutant: the weights of the four-argument version (no LMP, no ATC).
TimeToPower_Legacy(distScore, voltScore, linesScore, qwScore, lmpScoreVal, atcScoreVal) ==
    Add(Add(Add(Mul(distScore, 35), Mul(voltScore, 20)), Mul(linesScore, 20)),
        Mul(qwScore, 25))

\* timeToPower, in 1e-5 point
TimeToPower(distScore, voltScore, linesScore, qwScore, lmpScoreVal, atcScoreVal) ==
    Add(Add(Add(Add(Add(Mul(distScore, 25), Mul(voltScore, 15)),
                    Mul(linesScore, 15)), Mul(qwScore, 18)),
            Mul(lmpScoreVal, 14)), Mul(atcScoreVal, 13))

\* lng in tenths of a degree: 100 - (lng + 70) * -1.2
LonScore(lng) ==
    Clamp(0, 100000,
          IF lng < -700 THEN Clamp(0, 100000, 100000 - (lng + 700) * (-120))
          ELSE 100000)

LatScore(lat) ==
    IF LatGe(lat, 330) /\ LatLe(lat, 430) THEN 90000
    ELSE IF LatGe(lat, 280) /\ LatLe(lat, 480) THEN 70000
    ELSE 40000

BbScore(state) ==
    LET bbPct == IF state \in DOMAIN BROADBAND_COVERAGE
                 THEN BROADBAND_COVERAGE[state] ELSE 80
    IN  IF bbPct >= 95 THEN 95000
        ELSE IF bbPct >= 90 THEN 85000
        ELSE IF bbPct >= 85 THEN 75000
        ELSE IF bbPct >= 80 THEN 65000
        ELSE IF bbPct >= 75 THEN 50000
        ELSE 35000

\* connectivity, in 1e-5 point
Connectivity(lonScore, latScore, bbScore) ==
    Add(Add(Mul(lonScore, 40), Mul(latScore, 30)), Mul(bbScore, 30))

\* Mutant: the moderate and the inland scores are exchanged.
FloodScore_ModerateInlandSwapped(lat, lng, state) ==
    IF isCoastalLocation(lat, lng, state) THEN 35000
    ELSE IF state \in MODERATE_FLOOD_STATES THEN 90000
    ELSE 65000

FloodScore(lat, lng, state) ==
    IF isCoastalLocation(lat, lng, state) THEN 35000
    ELSE IF state \in MODERATE_FLOOD_STATES THEN 65000
    ELSE 90000

\* Mutant: the known-asset weights, the status share not redistributed.
RiskFactors_KnownAssetWeights(contamScore, floodScore) ==
    Add(Mul(contamScore, 50), Mul(floodScore, 30))

\* riskFactors, in 1e-5 point
RiskFactors(contamScore, floodScore) ==
    Add(Mul(contamScore, 65), Mul(floodScore, 35))

\* Mutant: the composite is taken from the rounded dimension scores.
Composite_OfRounded(timeToPower, siteReadiness, connectivity, riskFactors) ==
    Add(Add(Add(Mul(Round1(timeToPower, 100000), 5000),
                Mul(Round1(siteReadiness, 100000), 2000)),
            Mul(Round1(connectivity, 100000), 1500)),
        Mul(Round1(riskFactors, 100000), 1500))

\* composite before clamping and rounding, in 1e-7 point
Composite(timeToPower, siteReadiness, connectivity, riskFactors) ==
    Add(Add(Add(Mul(timeToPower, 50), Mul(siteReadiness, 20)),
            Mul(connectivity, 15)), Mul(riskFactors, 15))

\* Math.round(Math.max(0, Math.min(100, composite)) * 10) / 10
RoundComposite(composite) == Round1(Clamp(0, 1000000000, composite), 10000000)

\* The local variables of computeLocationScore at its end (Null when it
\* returned at "if (!bestSub) return null").
Locals(lng, lat, subs, qws, lmp, atc) ==
    LET best == ScanSubstations(subs, 1, lat, lng, [dist |-> Infinity, sub |-> Null])
        bestSub == best.sub
        qw == ScanQueueWithdrawals(qws, 1, lat, lng, [qwCount |-> 0, qwTotalMW |-> 0])
        state == bestSub.state
        distScore == DistScore(best.dist)
        voltScore == VoltScore(bestSub.maxVolt)
        linesScore == LinesScore(bestSub.lines)
        qwScore == QwScore(qw.qwCount, qw.qwTotalMW)
        lmpResult == IF lmp # Null THEN findNearestLmpNode(lat, lng, lmp.features) ELSE Null
        lmpScoreVal == IF lmpResult # Null THEN lmpResult.lmpScore ELSE 50000
        atcResult == IF atc # Null THEN findNearestAtcInterface(lat, lng, atc.features) ELSE Null
        atcScoreVal == IF atcResult # Null THEN atcResult.atcScore ELSE 50000
        timeToPower == TimeToPower(distScore, voltScore, linesScore, qwScore,
                                   lmpScoreVal, atcScoreVal)
        siteReadiness == 6500000
        lonScore == LonScore(lng)
        latScore == LatScore(lat)
        bbScore == BbScore(state)
        connectivity == Connectivity(lonScore, latScore, bbScore)
        floodScore == FloodScore(lat, lng, state)
        contamScore == 70000
        riskFactors == RiskFactors(contamScore, floodScore)
        composite == Composite(timeToPower, siteReadiness, connectivity, riskFactors)
    IN  IF bestSub = Null THEN Null
        ELSE [k |-> "locals",
              bestDist |-> best.dist, bestSub |-> bestSub, state |-> state,
              qwCount |-> qw.qwCount, qwTotalMW |-> qw.qwTotalMW,
              distScore |-> distScore, voltScore |-> voltScore,
              genCapScore |-> 0, linesScore |-> linesScore, qwScore |-> qwScore,
              lmpResult |-> lmpResult, lmpScoreVal |-> lmpScoreVal,
              nearestLmpAvg |-> IF lmpResult # Null THEN lmpResult.avgLmp ELSE 0,
              nearestLmpNode |-> IF lmpResult # Null THEN lmpResult.name ELSE "",
              atcResult |-> atcResult, atcScoreVal |-> atcScoreVal,
              nearestAtcMw |-> IF atcResult # Null THEN atcResult.avgAtcMw ELSE 0,
              nearestAtcInterface |-> IF atcResult # Null THEN atcResult.name ELSE "",
              timeToPower |-> timeToPower,
              fuelTypeScore |-> 0, capacityScaleScore |-> 0,
              siteReadiness |-> siteReadiness,
              lonScore |-> lonScore, latScore |-> latScore, bbScore |-> bbScore,
              connectivity |-> connectivity,
              floodScore |-> floodScore, contamScore |-> contamScore,
              statusScore |-> 0, riskFactors |-> riskFactors,
              composite |-> composite]

\* Mutant: the value is returned unrounded.
r_Unrounded(v) == v

\* r = function (v) { return Math.round(v * 10) / 10; } on a score in thousandths
r(v) == Round1(v, 1000)

\* The ScoredSite built from the locals.  Distances are returned in thousandths
\* of a mile, prices in thousandths of a dollar, MW in thousandths.
ScoredSiteOf(lng, lat, c) ==
    [k |-> "site",
     plant_name |-> "Custom Location",
     state |-> c.state,
     latitude |-> lat,
     longitude |-> lng,
     total_capacity_mw |-> 0,
     fuel_type |-> "Custom",
     status |-> "custom",
     composite_score |-> RoundComposite(c.composite),
     time_to_power |-> Round1(c.timeToPower, 100000),
     site_readiness |-> Round1(c.siteReadiness, 100000),
     connectivity |-> Round1(c.connectivity, 100000),
     risk_factors |-> Round1(c.riskFactors, 100000),
     sub_distance_score |-> r(c.distScore),
     sub_voltage_score |-> r(c.voltScore),
     gen_capacity_score |-> r(c.genCapScore),
     tx_lines_score |-> r(c.linesScore),
     queue_withdrawal_score |-> r(c.qwScore),
     fuel_type_score |-> r(c.fuelTypeScore),
     capacity_scale_score |-> r(c.capacityScaleScore),
     longitude_score |-> r(c.lonScore),
     latitude_score |-> r(c.latScore),
     broadband_score |-> r(c.bbScore),
     contamination_score |-> r(c.contamScore),
     operational_status_score |-> r(c.statusScore),
     flood_zone_score |-> r(c.floodScore),
     lmp_score |-> r(c.lmpScoreVal),
     nearest_lmp_avg |-> Round1(c.nearestLmpAvg, 100),
     nearest_lmp_node |-> c.nearestLmpNode,
     atc_score |-> r(c.atcScoreVal),
     nearest_atc_mw |-> Round1(c.nearestAtcMw, 1),
     nearest_atc_interface |-> c.nearestAtcInterface,
     nearest_sub_name |-> c.bestSub.name,
     nearest_sub_distance_miles |-> Round1(c.bestDist, 10),
     nearest_sub_voltage_kv |-> c.bestSub.maxVolt,
     nearest_sub_lines |-> c.bestSub.lines,
     queue_count_20mi |-> c.qwCount,
     queue_mw_20mi |-> Round1(c.qwTotalMW, 1)]

computeLocationScore(lng, lat, subs, qws, lmp, atc) ==
    LET c == Locals(lng, lat, subs, qws, lmp, atc)
    IN  IF c = Null THEN Null ELSE ScoredSiteOf(lng, lat, c)

----------------------------------------------------------------------------
(* The four-argument computeLocationScore of src/lib/scoring.ts.  Its text  *)
(* is that of the six-argument version without the LMP and ATC statements,  *)
(* with its own timeToPower weights and without the six LMP / ATC fields.   *)

\* distScore * 0.35 + voltScore * 0.20 + linesScore * 0.20 + qwScore * 0.25
LegacyTimeToPower(distScore, voltScore, linesScore, qwScore) ==
    Add(Add(Add(Mul(distScore, 35), Mul(voltScore, 20)), Mul(linesScore, 20)),
        Mul(qwScore, 25))

\* The local variables at the function's end (Null at "return null")
LegacyLocals(lng, lat, subs, qws) ==
    LET best == ScanSubstations(subs, 1, lat, lng, [dist |-> Infinity, sub |-> Null])
        bestSub == best.sub
        qw == ScanQueueWithdrawals(qws, 1, lat, lng, [qwCount |-> 0, qwTotalMW |-> 0])
        state == bestSub.state
        distScore == DistScore(best.dist)
        voltScore == VoltScore(bestSub.maxVolt)
        linesScore == LinesScore(bestSub.lines)
        qwScore == QwScore(qw.qwCount, qw.qwTotalMW)
        timeToPower == LegacyTimeToPower(distScore, voltScore, linesScore, qwScore)
        siteReadiness == 6500000
        lonScore == LonScore(lng)
        latScore == LatScore(lat)
        bbScore == BbScore(state)
        connectivity == Connectivity(lonScore, latScore, bbScore)
        floodScore == FloodScore(lat, lng, state)
        contamScore == 70000
        riskFactors == RiskFactors(contamScore, floodScore)
        composite == Composite(timeToPower, siteReadiness, connectivity, riskFactors)
    IN  IF bestSub = Null THEN Null
        ELSE [k |-> "locals",
              bestDist |-> best.dist, bestSub |-> bestSub, state |-> state,
              qwCount |-> qw.qwCount, qwTotalMW |-> qw.qwTotalMW,
              distScore |-> distScore, voltScore |-> voltScore,
              genCapScore |-> 0, linesScore |-> linesScore, qwScore |-> qwScore,
              timeToPower |-> timeToPower,
              fuelTypeScore |-> 0, capacityScaleScore |-> 0,
              siteReadiness |-> siteReadiness,
              lonScore |-> lonScore, latScore |-> latScore, bbScore |-> bbScore,
              connectivity |-> connectivity,
              floodScore |-> floodScore, contamScore |-> contamScore,
              statusScore |-> 0, riskFactors |-> riskFactors,
              composite |-> composite]

\* The ScoredSite the four-argument version builds
LegacyScoredSiteOf(lng, lat, c) ==
    [k |-> "site",
     plant_name |-> "Custom Location",
     state |-> c.state,
     latitude |-> lat,
     longitude |-> lng,
     total_capacity_mw |-> 0,
     fuel_type |-> "Custom",
     status |-> "custom",
     composite_score |-> RoundComposite(c.composite),
     time_to_power |-> Round1(c.timeToPower, 100000),
     site_readiness |-> Round1(c.siteReadiness, 100000),
     connectivity |-> Round1(c.connectivity, 100000),
     risk_factors |-> Round1(c.riskFactors, 100000),
     sub_distance_score |-> r(c.distScore),
     sub_voltage_score |-> r(c.voltScore),
     gen_capacity_score |-> r(c.genCapScore),
     tx_lines_score |-> r(c.linesScore),
     queue_withdrawal_score |-> r(c.qwScore),
     fuel_type_score |-> r(c.fuelTypeScore),
     capacity_scale_score |-> r(c.capacityScaleScore),
     longitude_score |-> r(c.lonScore),
     latitude_score |-> r(c.latScore),
     broadband_score |-> r(c.bbScore),
     contamination_score |-> r(c.contamScore),
     operational_status_score |-> r(c.statusScore),
     flood_zone_score |-> r(c.floodScore),
     nearest_sub_name |-> c.bestSub.name,
     nearest_sub_distance_miles |-> Round1(c.bestDist, 10),
     nearest_sub_voltage_kv |-> c.bestSub.maxVolt,
     nearest_sub_lines |-> c.bestSub.lines,
     queue_count_20mi |-> c.qwCount,
     queue_mw_20mi |-> Round1(c.qwTotalMW, 1)]

LegacyComputeLocationScore(lng, lat, subs, qws) ==
    LET c == LegacyLocals(lng, lat, subs, qws)
    IN  IF c = Null THEN Null ELSE LegacyScoredSiteOf(lng, lat, c)

----------------------------------------------------------------------------
(* estimateTimeToPower *)

\* Mutant: hasCapacity tests >= 30, so the baseline queue score counts as a
\* capacity signal.
estimateTimeToPower_BaselineIsCapacity(site) ==
    LET isPowerPlant == site.status = "retired" \/ site.status = "retiring"
        closeSub == Ge(site.sub_distance_score, 80000)
        hasLines == Ge(site.tx_lines_score, 25000)
        hasCapacity == Ge(site.queue_withdrawal_score, 30000)
        farFromSub == Lt(site.sub_distance_score, 50000)
        noInfra == Lt(site.tx_lines_score, 25000)
                   /\ Le(site.queue_withdrawal_score, 30000)
    IN  IF isPowerPlant /\ closeSub /\ hasLines /\ hasCapacity
        THEN [tier |-> "green", label |-> "< 12 mo", months |-> "Under 12 months"]
        ELSE IF farFromSub \/ noInfra
        THEN [tier |-> "red", label |-> "> 18 mo", months |-> "Over 18 months"]
        ELSE [tier |-> "yellow", label |-> "12-18 mo", months |-> "12 to 18 months"]

\* Mutant: farFromSub tests <= 50, so a site exactly 25 miles out is red.
estimateTimeToPower_FarAtFifty(site) ==
    LET isPowerPlant == site.status = "retired" \/ site.status = "retiring"
        closeSub == Ge(site.sub_distance_score, 80000)
        hasLines == Ge(site.tx_lines_score, 25000)
        hasCapacity == Gt(site.queue_withdrawal_score, 30000)
        farFromSub == Le(site.sub_distance_score, 50000)
        noInfra == Lt(site.tx_lines_score, 25000)
                   /\ Le(site.queue_withdrawal_score, 30000)
    IN  IF isPowerPlant /\ closeSub /\ hasLines /\ hasCapacity
        THEN [tier |-> "green", label |-> "< 12 mo", months |-> "Under 12 months"]
        ELSE IF farFromSub \/ noInfra
        THEN [tier |-> "red", label |-> "> 18 mo", months |-> "Over 18 months"]
        ELSE [tier |-> "yellow", label |-> "12-18 mo", months |-> "12 to 18 months"]

\* Mutant: a right-click scored location (status "custom") counts as a plant.
estimateTimeToPower_CustomIsPlant(site) ==
    LET isPowerPlant == site.status \in {"retired", "retiring", "custom"}
        closeSub == Ge(site.sub_distance_score, 80000)
        hasLines == Ge(site.tx_lines_score, 25000)
        hasCapacity == Gt(site.queue_withdrawal_score, 30000)
        farFromSub == Lt(site.sub_distance_score, 50000)
        noInfra == Lt(site.tx_lines_score, 25000)
                   /\ Le(site.queue_withdrawal_score, 30000)
    IN  IF isPowerPlant /\ closeSub /\ hasLines /\ hasCapacity
        THEN [tier |-> "green", label |-> "< 12 mo", months |-> "Under 12 months"]
        ELSE IF farFromSub \/ noInfra
        THEN [tier |-> "red", label |-> "> 18 mo", months |-> "Over 18 months"]
        ELSE [tier |-> "yellow", label |-> "12-18 mo", months |-> "12 to 18 months"]

estimateTimeToPower(site) ==
    LET isPowerPlant == site.status = "retired" \/ site.status = "retiring"
        closeSub == Ge(site.sub_distance_score, 80000)
        hasLines == Ge(site.tx_lines_score, 25000)
        hasCapacity == Gt(site.queue_withdrawal_score, 30000)
        farFromSub == Lt(site.sub_distance_score, 50000)
        noInfra == Lt(site.tx_lines_score, 25000)
                   /\ Le(site.queue_withdrawal_score, 30000)
    IN  IF isPowerPlant /\ closeSub /\ hasLines /\ hasCapacity
        THEN [tier |-> "green", label |-> "< 12 mo", months |-> "Under 12 months"]
        ELSE IF farFromSub \/ noInfra
        THEN [tier |-> "red", label |-> "> 18 mo", months |-> "Over 18 months"]
        ELSE [tier |-> "yellow", label |-> "12-18 mo", months |-> "12 to 18 months"]

----------------------------------------------------------------------------
(* MapComponent: runProximityAnalysis.  Latitudes are in arc units of 0.01   *)
(* mile; every feature and every line vertex lies on the site's meridian.   *)
(* A line geometry is the sequence of its parts, each the sequence of its   *)
(* vertices' latitudes: a LineString has one part.                          *)

\* A distance in miles, in arc units
ArcUnits(miles) == miles * 100

\* Arc units per ten degrees of latitude: R * PI / 180 = 69.094 miles per degree
HundredthsPerTenDegrees == 69094

EmptyTally ==
    [total |-> 0, by500Plus |-> 0, by345to499 |-> 0, by230to344 |-> 0, byUnder230 |-> 0]

\* total++ and the if / else-if chain over the voltage
Tally(res, volt) ==
    IF Ge(volt, 500) THEN [res EXCEPT !.total = @ + 1, !.by500Plus = @ + 1]
    ELSE IF Ge(volt, 345) THEN [res EXCEPT !.total = @ + 1, !.by345to499 = @ + 1]
    ELSE IF Ge(volt, 230) THEN [res EXCEPT !.total = @ + 1, !.by230to344 = @ + 1]
    ELSE [res EXCEPT !.total = @ + 1, !.byUnder230 = @ + 1]

\* Mutant: the boundary is exclusive (dist < radiusMiles).
WithinRadius_Exclusive(dist, radiusMiles) == Lt(dist, ArcUnits(radiusMiles))

\* dist <= radiusMiles
WithinRadius(dist, radiusMiles) == Le(dist, ArcUnits(radiusMiles))

\* The substation loop from feature i on
RECURSIVE AnalyzeSubstations(_, _, _, _, _)
AnalyzeSubstations(subFeatures, i, site, radiusMiles, subResult) ==
    IF i > Len(subFeatures) THEN subResult
    ELSE LET sf == subFeatures[i]
             dist == haversineDistanceMiles(site.latitude, site.longitude,
                                            sf.lat, site.longitude)
         IN  IF sf.type # "Point"
             THEN AnalyzeSubstations(subFeatures, i + 1, site, radiusMiles, subResult)
             ELSE IF WithinRadius(dist, radiusMiles)
             THEN AnalyzeSubstations(subFeatures, i + 1, site, radiusMiles,
                                     Tally(subResult, NumberOr(sf.MAX_VOLT, 0)))
             ELSE AnalyzeSubstations(subFeatures, i + 1, site, radiusMiles, subResult)

\* The queue-withdrawal loop from feature i on
RECURSIVE AnalyzeQueueWithdrawals(_, _, _, _, _)
AnalyzeQueueWithdrawals(qwFeatures, i, site, radiusMiles, qwResult) ==
    IF i > Len(qwFeatures) THEN qwResult
    ELSE LET qf == qwFeatures[i]
             qDist == haversineDistanceMiles(site.latitude, site.longitude,
                                             qf.lat, site.longitude)
         IN  IF qf.type # "Point"
             THEN AnalyzeQueueWithdrawals(qwFeatures, i + 1, site, radiusMiles, qwResult)
             ELSE IF WithinRadius(qDist, radiusMiles)
             THEN AnalyzeQueueWithdrawals(qwFeatures, i + 1, site, radiusMiles,
                     [total |-> qwResult.total + 1,
                      totalWithdrawnMW |->
                          Add(qwResult.totalWithdrawnMW, NumberOr(qf.total_mw, 0))])
             ELSE AnalyzeQueueWithdrawals(qwFeatures, i + 1, site, radiusMiles, qwResult)

\* circle(center, radiusMiles, {steps: 64, units: "miles"}): the polygon has a
\* vertex at bearing 0 and one at bearing 180, both at the radius from the
\* centre; on the centre's meridian it covers the span between them.
circle(site, radiusMiles) ==
    [k |-> "circle", site |-> site, radiusMiles |-> radiusMiles,
     south |-> site.latitude - ArcUnits(radiusMiles),
     north |-> site.latitude + ArcUnits(radiusMiles)]

\* booleanIntersects(tf, circlePolygon) for a line on the centre's meridian:
\* one of its segments shares a point with the polygon's span.
booleanIntersects(tf, circlePolygon) ==
    \E p \in DOMAIN tf.coordinates :
        \E c \in 1..(Len(tf.coordinates[p]) - 1) :
            LET a == tf.coordinates[p][c]
                b == tf.coordinates[p][c + 1]
            IN  /\ (IF a <= b THEN a ELSE b) <= circlePolygon.north
                /\ (IF a <= b THEN b ELSE a) >= circlePolygon.south

\* coords: the vertices of a LineString, the concatenated parts of a
\* MultiLineString
RECURSIVE ConcatParts(_, _)
ConcatParts(multiCoords, mi) ==
    IF mi > Len(multiCoords) THEN <<>>
    ELSE multiCoords[mi] \o ConcatParts(multiCoords, mi + 1)

LineCoords(tf) ==
    IF tf.type = "LineString" THEN tf.coordinates[1] ELSE ConcatParts(tf.coordinates, 1)

\* inBbox: a vertex with bboxMinLat <= latitude <= bboxMaxLat, latDelta being
\* radiusMiles / 69.0 degrees.  The longitude test holds for every vertex on
\* the site's meridian (lonDelta > 0).
InBbox(coords, site, radiusMiles) ==
    \E ci \in DOMAIN coords :
        MathAbs(coords[ci] - site.latitude) * 690 <= radiusMiles * HundredthsPerTenDegrees

\* Mutant: no bounding-box prefilter, every line is given to booleanIntersects.
AnalyzeTransmissionLines_NoPrefilter(tlFeatures, ti, site, radiusMiles, circlePolygon, acc) ==
    LET lines == {i \in DOMAIN tlFeatures :
                     tlFeatures[i].type \in {"LineString", "MultiLineString"}}
        hit == {i \in lines : booleanIntersects(tlFeatures[i], circlePolygon)}
        volts == [t \in {"a", "b", "c", "d"} |->
                    {i \in hit :
                        LET v == NumberOr(tlFeatures[i].VOLTAGE, 0)
                        IN  CASE t = "a" -> Ge(v, 500)
                              [] t = "b" -> ~Ge(v, 500) /\ Ge(v, 345)
                              [] t = "c" -> ~Ge(v, 345) /\ Ge(v, 230)
                              [] t = "d" -> ~Ge(v, 230)}]
    IN  [tlResult |-> [total |-> Cardinality(hit),
                       by500Plus |-> Cardinality(volts["a"]),
                       by345to499 |-> Cardinality(volts["b"]),
                       by230to344 |-> Cardinality(volts["c"]),
                       byUnder230 |-> Cardinality(volts["d"])],
         tested |-> lines]

\* The transmission-line loop from feature ti on: acc is [tlResult, tested],
\* tested being the features booleanIntersects was evaluated on.
RECURSIVE AnalyzeTransmissionLines(_, _, _, _, _, _)
AnalyzeTransmissionLines(tlFeatures, ti, site, radiusMiles, circlePolygon, acc) ==
    IF ti > Len(tlFeatures) THEN acc
    ELSE LET tf == tlFeatures[ti]
         IN  IF tf.type # "LineString" /\ tf.type # "MultiLineString"
             THEN AnalyzeTransmissionLines(tlFeatures, ti + 1, site, radiusMiles,
                                           circlePolygon, acc)
             ELSE IF ~InBbox(LineCoords(tf), site, radiusMiles)
             THEN AnalyzeTransmissionLines(tlFeatures, ti + 1, site, radiusMiles,
                                           circlePolygon, acc)
             ELSE IF booleanIntersects(tf, circlePolygon)
             THEN AnalyzeTransmissionLines(tlFeatures, ti + 1, site, radiusMiles,
                     circlePolygon,
                     [tlResult |-> Tally(acc.tlResult, NumberOr(tf.VOLTAGE, 0)),
                      tested |-> acc.tested \cup {ti}])
             ELSE AnalyzeTransmissionLines(tlFeatures, ti + 1, site, radiusMiles,
                     circlePolygon,
                     [tlResult |-> acc.tlResult, tested |-> acc.tested \cup {ti}])

\* The local variables of runProximityAnalysis at its end
ProximityLocals(site, radiusMiles, subFeatures, tlFeatures, qwFeatures) ==
    LET circlePolygon == circle(site, radiusMiles)
        tl == AnalyzeTransmissionLines(tlFeatures, 1, site, radiusMiles, circlePolygon,
                                       [tlResult |-> EmptyTally, tested |-> {}])
    IN  [k |-> "locals",
         circlePolygon |-> circlePolygon,
         subResult |-> AnalyzeSubstations(subFeatures, 1, site, radiusMiles, EmptyTally),
         qwResult |-> AnalyzeQueueWithdrawals(qwFeatures, 1, site, radiusMiles,
                                              [total |-> 0, totalWithdrawnMW |-> 0]),
         tlResult |-> tl.tlResult,
         tested |-> tl.tested]

\* runProximityAnalysis(site, radiusMiles) with the three caches filled: no
\* await is reached, the function runs to its end in one step.
RunProximityAnalysis(site, radiusMiles) ==
    /\ substationsCache # Null
    /\ transmissionLinesCache # Null
    /\ queueWithdrawalsCache # Null
    /\ proxCalc' = ProximityLocals(site, radiusMiles, substationsCache.features,
                                   transmissionLinesCache.features,
                                   queueWithdrawalsCache.features)
    /\ radiusCircle' = proxCalc'.circlePolygon
    /\ proximityResult' =
          [k |-> "prox", site |-> site, radiusMiles |-> radiusMiles,
           substations |-> proxCalc'.subResult,
           transmissionLines |-> proxCalc'.tlResult,
           queueWithdrawals |-> proxCalc'.qwResult]
    /\ proximityLoading' = FALSE
    /\ UNCHANGED <<substationsCache, transmissionLinesCache, queueWithdrawalsCache>>

----------------------------------------------------------------------------
(* MapComponent: the effect that re-runs the analysis on a radius change.   *)
(* The clock counts steps of 100 ms.                                        *)

\* setTimeout(..., 300): the delay, in steps of the clock
DebounceSteps == 3

\* Mutant: the effect returns no cleanup, a pending timer is never cleared.
ClearTimeout_Missing(pending, timeout) == pending

\* clearTimeout(timeout), timeout being Null when the effect returned no
\* cleanup; clearing a timer that has fired changes nothing
ClearTimeout(pending, timeout) ==
    IF timeout = Null THEN pending ELSE pending \ {timeout}

\* setTimeout(function () { runProximityAnalysis(site, proximityRadius); }, 300)
\* as the effect of a render with the given result and radius calls it
SetTimeout(site, radiusMiles) ==
    [k |-> "timeout", id |-> nextTimeoutId, site |-> site,
     radiusMiles |-> radiusMiles, due |-> now + DebounceSteps]

----------------------------------------------------------------------------
(* Inputs.  The STATE property of a substation is spelled State: STATE is a  *)
(* reserved word.                                                          *)

MaxSubs == 2          \* substation features per data set
MaxQueue == 2         \* queue-withdrawal features per data set (varied properties)
MaxDenseQueue == 5    \* queue-withdrawal features per data set (dense clusters)

SeqUpTo(S, n) == UNION {[1..m -> S] : m \in 0..n}

\* Query points <<lng, lat>>: at 39.9 N, 25 miles north of it, at 30.7 N and
\* at 30.4 N; at 180 W, 91.5 W and 65 W.
QueryPoints ==
    {<<-1800, 27600>>, <<-650, 27600>>, <<-915, 27850>>, <<-650, 27850>>,
     <<-915, 21200>>, <<-650, 21200>>, <<-915, 21000>>}

NotANumber == Str(<<"N", "/", "A">>)

SubBase ==
    [type |-> "Point", lat |-> 27600, NAME |-> "Alpha", State |-> "OH",
     MAX_VOLT |-> Num(345), LINES |-> Num(3)]

SubFeatures ==
    {SubBase, [SubBase EXCEPT !.type = "LineString"]}
    \cup {[SubBase EXCEPT !.lat = l, !.NAME = "Bravo"] : l \in {27850, 28100}}
    \cup {[SubBase EXCEPT !.MAX_VOLT = v] :
            v \in {Absent, Num(230), Num(765), Str(<<"5", "0", "0">>), NotANumber}}
    \cup {[SubBase EXCEPT !.LINES = v] :
            v \in {Absent, Num(-1), Num(16), NotANumber}}
    \cup {[SubBase EXCEPT !.State = s] : s \in {"LA", "NJ", ""}}
    \cup {[type |-> "Point", lat |-> 28100, NAME |-> "", State |-> "LA",
           MAX_VOLT |-> Num(765), LINES |-> Str(<<"8">>)]}

QwBase == [type |-> "Point", lat |-> 27600, total_mw |-> Num(1000)]

QwFeatures ==
    {QwBase, [QwBase EXCEPT !.type = "LineString"]}
    \cup {[QwBase EXCEPT !.lat = l] : l \in {27800, 27801}}
    \cup {[QwBase EXCEPT !.total_mw = v] :
            v \in {Absent, Num(0), Num(-500), Num(333), Num(6000),
                   Str(<<"2", "5", "0">>), NotANumber}}

\* Dense clusters: withdrawals of 0 MW and 1000 MW at the query point, and one
\* 20.1 miles away.
DenseQwFeatures ==
    {[QwBase EXCEPT !.total_mw = Num(0)], QwBase, [QwBase EXCEPT !.lat = 27801]}

\* Single substations: line counts around the cap of 8, the states of the
\* flood tables, and two substations 25 miles south and north of 39.9 N.
ProbeSubFeatures ==
    {[SubBase EXCEPT !.LINES = v] :
        v \in {Num(0), Num(1), Num(4), Num(8), Num(9), Str(<<"4">>)}}
    \cup {[SubBase EXCEPT !.State = s] :
            s \in {"FL", "TX", "MS", "AL", "NC", "SC", "GA", "HI", "ZZ"}}

TieSubFeatures ==
    {[SubBase EXCEPT !.lat = 27350, !.NAME = "Charlie"],
     [SubBase EXCEPT !.lat = 27850, !.NAME = "Bravo"],
     [SubBase EXCEPT !.lat = 27850, !.NAME = "Delta", !.MAX_VOLT = Num(500)]}

LmpNode(price) == [type |-> "Point", lat |-> 27600, name |-> "HUB", avg_lmp |-> price]
AtcNode(mw) == [type |-> "Point", lat |-> 27600, name |-> "IF-1", avg_atc_mw |-> mw]

\* An optional FeatureCollection argument: Null, or its features
FeatureCollection(features) == [k |-> "fc", features |-> features]

LmpDataSets ==
    {Null}
    \cup {FeatureCollection(f) :
            f \in {<<>>, <<[LmpNode(Num(4200)) EXCEPT !.type = "Polygon"]>>,
                   <<[LmpNode(Num(9000)) EXCEPT !.lat = 28100], LmpNode(Num(2500))>>}}
    \cup {FeatureCollection(<<LmpNode(p)>>) :
            p \in {Absent, Num(1500), Num(4200), Num(4501), Num(9000), NotANumber}}

AtcDataSets ==
    {Null, FeatureCollection(<<>>)}
    \cup {FeatureCollection(<<AtcNode(m)>>) :
            m \in {Absent, Num(275), Num(300), Num(1000), NotANumber}}

\* Prices (cents) and transfer capabilities (MW) at and next to every step of
\* computeLmpScore and computeAtcScore.
LmpStepPrices ==
    {0, 2000, 2001, 2500, 2501, 3000, 3001, 3500, 3501, 4000, 4001, 4500, 4501,
     5000, 5001, 5500, 5501, 9000, -100}

AtcStepMws == {0, 24, 25, 49, 50, 99, 100, 199, 200, 275, 299, 300, 499, 500, 501, -5}

\* One node at the query's 39.9 N, or two nodes 25 miles south and north of it
LmpStepDataSets ==
    {FeatureCollection(<<LmpNode(Num(p))>>) : p \in LmpStepPrices}
    \cup {FeatureCollection(<<[LmpNode(Num(p1)) EXCEPT !.lat = 27350, !.name = "SOUTH"],
                              [LmpNode(Num(p2)) EXCEPT !.lat = 27850, !.name = "NORTH"]>>) :
            p1 \in {2500, 4200}, p2 \in {2500, 9000}}

AtcStepDataSets ==
    {FeatureCollection(<<AtcNode(Num(m))>>) : m \in AtcStepMws}

----------------------------------------------------------------------------
(* Specification of computeLocationScore: the arguments are drawn in Init,  *)
(* the call applies the function to them at a query point.                  *)

InitData ==
    \/ /\ substationsData \in SeqUpTo(SubFeatures, MaxSubs)
       /\ queueWithdrawalsData = <<QwBase>>
       /\ lmpNodesData = Null
       /\ atcData = Null
    \/ /\ substationsData = <<SubBase>>
       /\ queueWithdrawalsData \in SeqUpTo(QwFeatures, MaxQueue)
       /\ lmpNodesData = Null
       /\ atcData = FeatureCollection(<<AtcNode(Num(275))>>)
    \/ /\ substationsData \in {<<>>, <<[SubBase EXCEPT !.MAX_VOLT = Num(230)]>>}
       /\ queueWithdrawalsData \in SeqUpTo(QwFeatures, 1)
       /\ lmpNodesData \in {Null, FeatureCollection(<<LmpNode(Num(4200))>>)}
       /\ atcData = Null
    \/ /\ substationsData = <<SubBase>>
       /\ queueWithdrawalsData \in SeqUpTo(DenseQwFeatures, MaxDenseQueue)
       /\ lmpNodesData = Null
       /\ atcData = Null
    \/ /\ substationsData = <<SubBase>>
       /\ queueWithdrawalsData = <<>>
       /\ lmpNodesData \in LmpDataSets
       /\ atcData \in AtcDataSets
    \/ /\ substationsData \in {<<f>> : f \in ProbeSubFeatures}
                              \cup {<<f, g>> : f, g \in TieSubFeatures}
       /\ queueWithdrawalsData = <<>>
       /\ lmpNodesData = Null
       /\ atcData = Null
    \/ /\ substationsData = <<SubBase>>
       /\ queueWithdrawalsData = <<>>
       /\ \/ lmpNodesData \in LmpStepDataSets /\ atcData = Null
          \/ lmpNodesData = Null /\ atcData \in AtcStepDataSets

\* The names of the files' caches
DataSets == {"substations", "transmissionLines", "queueWithdrawals", "lmpNodes"}

\* Nothing fetched, nothing called; the star click handler is registered by
\* the scored-sites effect of the first render, where proximityRadius is 10.
LoadInitial ==
    /\ lmpNodesCache = Null
    /\ starClickRadius = 10
    /\ calls = {}
    /\ nextCallId = 1
    /\ downloads = [ds \in DataSets |-> 0]
    /\ rejected = {}
    /\ completed = <<>>

\* MapComponent as useState and useRef initialise it
MapInitial ==
    /\ proximityResult = Null
    /\ proximityRadius = 10
    /\ proximityLoading = FALSE
    /\ substationsCache = Null
    /\ transmissionLinesCache = Null
    /\ queueWithdrawalsCache = Null
    /\ radiusCircle = Null
    /\ proxCalc = Null
    /\ timeouts = {}
    /\ cleanup = Null
    /\ nextTimeoutId = 1
    /\ LoadInitial
    /\ now = 0

Init ==
    /\ InitData
    /\ arg = Null
    /\ result = Null
    /\ calc = Null
    /\ ttpSite = Null
    /\ ttp = Null
    /\ legacyResult = Null
    /\ MapInitial

ComputeLocationScore(lng, lat) ==
    /\ arg' = [k |-> "arg", lng |-> lng, lat |-> lat]
    /\ calc' = Locals(lng, lat, substationsData, queueWithdrawalsData,
                      lmpNodesData, atcData)
    /\ result' = IF calc' = Null THEN Null ELSE ScoredSiteOf(lng, lat, calc')
    /\ UNCHANGED <<substationsData, queueWithdrawalsData, lmpNodesData, atcData,
                   ttpSite, ttp, legacyResult>>
    /\ UNCHANGED mapVars

Next == \E q \in QueryPoints : ComputeLocationScore(q[1], q[2])

Spec == Init /\ [][Next]_vars

----------------------------------------------------------------------------
(* Specification of estimateTimeToPower: it is applied to the sites of the  *)
(* scored-sites collection, whose sub-scores are drawn from a set holding   *)
(* the classifier's thresholds and their neighbours.                        *)

SiteStatuses == {"retired", "retiring", "custom", "operating"}
DistanceScores == {0, 40000, 49900, 50000, 79900, 80000, 85000, 100000, NaN}
LinesScores == {0, 12500, 24900, 25000, 37500, 100000, NaN}
QueueScores == {0, 29900, 30000, 30100, 55000, 100000, NaN}

KnownSites ==
    [k : {"site"}, status : SiteStatuses, sub_distance_score : DistanceScores,
     tx_lines_score : LinesScores, queue_withdrawal_score : QueueScores]

InitTtp ==
    /\ substationsData = <<>>
    /\ queueWithdrawalsData = <<>>
    /\ lmpNodesData = Null
    /\ atcData = Null
    /\ arg = Null
    /\ result = Null
    /\ calc = Null
    /\ ttpSite = Null
    /\ ttp = Null
    /\ legacyResult = Null
    /\ MapInitial

EstimateTimeToPower(site) ==
    /\ ttpSite' = site
    /\ ttp' = estimateTimeToPower(site)
    /\ UNCHANGED <<substationsData, queueWithdrawalsData, lmpNodesData, atcData,
                   arg, result, calc, legacyResult>>
    /\ UNCHANGED mapVars

NextTtp == \E site \in KnownSites : EstimateTimeToPower(site)

SpecTtp == InitTtp /\ [][NextTtp]_vars

----------------------------------------------------------------------------
(* Specification of the right-click popup: scoreLocation hands the result   *)
(* of computeLocationScore, when there is one, to buildScoredSitePopupHTML, *)
(* which classifies it with estimateTimeToPower.                            *)

ScoreLocationPopup(lng, lat) ==
    /\ arg' = [k |-> "arg", lng |-> lng, lat |-> lat]
    /\ calc' = Locals(lng, lat, substationsData, queueWithdrawalsData,
                      lmpNodesData, atcData)
    /\ result' = IF calc' = Null THEN Null ELSE ScoredSiteOf(lng, lat, calc')
    /\ IF result' = Null
       THEN UNCHANGED <<ttpSite, ttp>>
       ELSE /\ ttpSite' = result'
            /\ ttp' = estimateTimeToPower(result')
    /\ UNCHANGED <<substationsData, queueWithdrawalsData, lmpNodesData, atcData,
                   legacyResult>>
    /\ UNCHANGED mapVars

NextPopup == \E q \in QueryPoints : ScoreLocationPopup(q[1], q[2])

SpecPopup == Init /\ [][NextPopup]_vars

----------------------------------------------------------------------------
(* Specification of the two versions of computeLocationScore: both are      *)
(* called on the same query point, substations and queue withdrawals, the   *)
(* six-argument one without LMP and ATC data.                               *)

InitVersions ==
    /\ Init
    /\ lmpNodesData = Null
    /\ atcData = Null

ComputeBothVersions(lng, lat) ==
    /\ arg' = [k |-> "arg", lng |-> lng, lat |-> lat]
    /\ calc' = Locals(lng, lat, substationsData, queueWithdrawalsData, Null, Null)
    /\ result' = IF calc' = Null THEN Null ELSE ScoredSiteOf(lng, lat, calc')
    /\ legacyResult' = LegacyComputeLocationScore(lng, lat, substationsData,
                                                  queueWithdrawalsData)
    /\ UNCHANGED <<substationsData, queueWithdrawalsData, lmpNodesData, atcData,
                   ttpSite, ttp>>
    /\ UNCHANGED mapVars

NextVersions == \E q \in QueryPoints : ComputeBothVersions(q[1], q[2])

SpecVersions == InitVersions /\ [][NextVersions]_vars

----------------------------------------------------------------------------
(* Specification of runProximityAnalysis: the three data files are drawn in *)
(* Init and sit in the caches, the slider is at one of its steps, and a     *)
(* site is opened from the sidebar.                                         *)

MaxProxSubs == 2      \* substation features in the file
MaxProxQueue == 2     \* queue-withdrawal features in the file
MaxProxLines == 2     \* transmission-line features in the file

\* The steps of the radius slider (min 5, max 20, step 5)
Radii == {5, 10, 15, 20}

\* Two sites 10 miles apart on the meridian of 91.5 W
ProxSites ==
    {[plant_name |-> "Site A", latitude |-> 276000, longitude |-> -915],
     [plant_name |-> "Site B", latitude |-> 277000, longitude |-> -915]}

\* Substations at Site A, 5 and 10 miles north of it and 0.01 mile beyond
\* each, and 20.01 miles north; and every voltage tier's ends at Site A.
ProxSubFeatures ==
    {[SubBase EXCEPT !.lat = l] :
        l \in {276000, 276500, 276501, 277000, 277001, 278001}}
    \cup {[SubBase EXCEPT !.lat = 276000, !.MAX_VOLT = v] :
            v \in {Absent, Num(229), Num(230), Num(344), Num(499), Num(500),
                   Str(<<"5", "0", "0">>), NotANumber}}
    \cup {[SubBase EXCEPT !.lat = 276000, !.type = "Polygon"]}

ProxQwBase == [QwBase EXCEPT !.lat = 276000]

ProxQwFeatures ==
    {[QwBase EXCEPT !.lat = l] : l \in {276000, 276500, 276501, 278001}}
    \cup {[ProxQwBase EXCEPT !.total_mw = v] :
            v \in {Absent, Num(0), Num(-500), Str(<<"2", "5", "0">>), NotANumber}}
    \cup {[ProxQwBase EXCEPT !.type = "LineString"]}

\* A line through Site A
TlBase ==
    [type |-> "LineString", coordinates |-> <<<<275900, 276100>>>>, VOLTAGE |-> Num(345)]

\* Lines: through Site A; from 30 miles south to 30 miles north of it; from
\* 10.01 to 15 miles north; far north; from 10 to 14 miles north; through
\* three vertices, the middle one at Site A; MultiLineStrings with a part at
\* Site A, and with two parts south and north of every circle; features that
\* are no lines; and a line through Site A of every voltage tier.
ProxTlFeatures ==
    {[TlBase EXCEPT !.coordinates = g] :
        g \in {<<<<273000, 279000>>>>, <<<<277001, 277500>>>>, <<<<279500, 279900>>>>,
               <<<<277000, 277400>>>>, <<<<273000, 276000, 279000>>>>}}
    \cup {[TlBase EXCEPT !.type = "MultiLineString", !.coordinates = g] :
            g \in {<<<<279500, 279900>>, <<276000, 276100>>>>,
                   <<<<273000, 273500>>, <<278500, 279000>>>>}}
    \cup {[TlBase EXCEPT !.type = "Point"]}
    \cup {[TlBase EXCEPT !.VOLTAGE = v] :
            v \in {Num(345), Absent, Num(138), Num(230), Num(500),
                   Str(<<"3", "4", "5">>), NotANumber}}

InitProx ==
    /\ \/ /\ substationsCache \in
                {FeatureCollection(f) : f \in SeqUpTo(ProxSubFeatures, MaxProxSubs)}
          /\ transmissionLinesCache = FeatureCollection(<<TlBase>>)
          /\ queueWithdrawalsCache = FeatureCollection(<<ProxQwBase>>)
       \/ /\ substationsCache = FeatureCollection(<<[SubBase EXCEPT !.lat = 276000]>>)
          /\ transmissionLinesCache = FeatureCollection(<<TlBase>>)
          /\ queueWithdrawalsCache \in
                {FeatureCollection(f) : f \in SeqUpTo(ProxQwFeatures, MaxProxQueue)}
       \/ /\ substationsCache = FeatureCollection(<<[SubBase EXCEPT !.lat = 276000]>>)
          /\ transmissionLinesCache \in
                {FeatureCollection(f) : f \in SeqUpTo(ProxTlFeatures, MaxProxLines)}
          /\ queueWithdrawalsCache = FeatureCollection(<<ProxQwBase>>)
    /\ proximityRadius \in Radii
    /\ proximityResult = Null
    /\ proximityLoading = FALSE
    /\ radiusCircle = Null
    /\ proxCalc = Null
    /\ timeouts = {}
    /\ cleanup = Null
    /\ nextTimeoutId = 1
    /\ LoadInitial
    /\ now = 0
    /\ substationsData = <<>>
    /\ queueWithdrawalsData = <<>>
    /\ lmpNodesData = Null
    /\ atcData = Null
    /\ arg = Null
    /\ result = Null
    /\ calc = Null
    /\ ttpSite = Null
    /\ ttp = Null
    /\ legacyResult = Null

\* flyToSite(site): the map flies to the site, the popup is replaced, and
\* runProximityAnalysis(site, proximityRadius) is called.
FlyToSite(site) ==
    /\ RunProximityAnalysis(site, proximityRadius)
    /\ UNCHANGED <<proximityRadius, timeouts, cleanup, nextTimeoutId, now>>
    /\ UNCHANGED loadVars
    /\ UNCHANGED scoringVars

NextProx == \E site \in ProxSites : FlyToSite(site)

SpecProx == InitProx /\ [][NextProx]_vars

----------------------------------------------------------------------------
(* The specification of the radius slider: a result is displayed for a     *)
(* site opened at the initial radius, the files sit in the caches, the     *)
(* user moves the slider, time passes, and pending timers fire.            *)

MaxTime == 8          \* the clock stops after this many steps of 100 ms
MaxTimeouts == 4      \* timers the radius effect sets

\* The files: substations 5 and 10.01 miles north of Site A, a line through
\* Site A, a queue withdrawal at Site A
RadiusSubFeatures == <<[SubBase EXCEPT !.lat = 276500], [SubBase EXCEPT !.lat = 277001]>>

InitRadius ==
    /\ substationsCache = FeatureCollection(RadiusSubFeatures)
    /\ transmissionLinesCache = FeatureCollection(<<TlBase>>)
    /\ queueWithdrawalsCache = FeatureCollection(<<ProxQwBase>>)
    /\ proximityRadius = 10
    /\ \E site \in ProxSites :
          /\ proxCalc = ProximityLocals(site, 10, RadiusSubFeatures, <<TlBase>>,
                                        <<ProxQwBase>>)
          /\ proximityResult =
                [k |-> "prox", site |-> site, radiusMiles |-> 10,
                 substations |-> proxCalc.subResult,
                 transmissionLines |-> proxCalc.tlResult,
                 queueWithdrawals |-> proxCalc.qwResult]
    /\ radiusCircle = proxCalc.circlePolygon
    /\ proximityLoading = FALSE
    /\ timeouts = {}
    /\ cleanup = Null
    /\ nextTimeoutId = 1
    /\ LoadInitial
    /\ now = 0
    /\ substationsData = <<>>
    /\ queueWithdrawalsData = <<>>
    /\ lmpNodesData = Null
    /\ atcData = Null
    /\ arg = Null
    /\ result = Null
    /\ calc = Null
    /\ ttpSite = Null
    /\ ttp = Null
    /\ legacyResult = Null

\* The slider's onChange: setProximityRadius(r); the component renders again
\* and, proximityRadius having changed, the previous effect's cleanup runs
\* and then the effect.
SetProximityRadius(value) ==
    /\ value # proximityRadius
    /\ nextTimeoutId <= MaxTimeouts
    /\ now + DebounceSteps <= MaxTime
    /\ proximityRadius' = value
    /\ IF proximityResult = Null
       THEN /\ timeouts' = ClearTimeout(timeouts, cleanup)
            /\ cleanup' = Null
            /\ UNCHANGED nextTimeoutId
       ELSE LET timeout == SetTimeout(proximityResult.site, value)
            IN  /\ timeouts' = ClearTimeout(timeouts, cleanup) \cup {timeout}
                /\ cleanup' = timeout
                /\ nextTimeoutId' = nextTimeoutId + 1
    /\ UNCHANGED <<proximityResult, proximityLoading, substationsCache,
                   transmissionLinesCache, queueWithdrawalsCache, radiusCircle,
                   proxCalc, now>>
    /\ UNCHANGED loadVars
    /\ UNCHANGED scoringVars

\* 100 ms pass
Tick ==
    /\ now < MaxTime
    /\ now' = now + 1
    /\ UNCHANGED <<proximityResult, proximityRadius, proximityLoading, substationsCache,
                   transmissionLinesCache, queueWithdrawalsCache, radiusCircle,
                   proxCalc, timeouts, cleanup, nextTimeoutId>>
    /\ UNCHANGED loadVars
    /\ UNCHANGED scoringVars

\* A timer that is due fires: its callback calls runProximityAnalysis with
\* the site and the radius of the render that set it.
TimeoutFires(timeout) ==
    /\ timeout \in timeouts
    /\ now >= timeout.due
    /\ timeouts' = timeouts \ {timeout}
    /\ RunProximityAnalysis(timeout.site, timeout.radiusMiles)
    /\ UNCHANGED <<proximityRadius, cleanup, nextTimeoutId, now>>
    /\ UNCHANGED loadVars
    /\ UNCHANGED scoringVars

\* The slider is rendered with the panel, that is while a result is displayed.
NextRadius ==
    \/ \E value \in Radii : proximityResult # Null /\ SetProximityRadius(value)
    \/ Tick
    \/ \E timeout \in timeouts : TimeoutFires(timeout)

\* Time passes, and a timer that is due fires.
SpecRadius ==
    /\ InitRadius
    /\ [][NextRadius]_vars
    /\ WF_vars(Tick)
    /\ WF_vars(\E timeout \in timeouts : TimeoutFires(timeout))

----------------------------------------------------------------------------
(* MapComponent: the loading of the files.  scoreLocation and               *)
(* runProximityAnalysis are async functions: a call runs until it awaits a  *)
(* fetch, and runs on when the fetch is resolved.  The state of the         *)
(* component is handled as one record, so that a function's run from one    *)
(* await to the next (or to its end) is one operator.                       *)
(* computeLocationScore is modelled on a grid of 0.1 mile and               *)
(* runProximityAnalysis on a grid of 0.01 mile: the latitudes of the files  *)
(* and of the clicked points are multiples of 0.1 mile here.                *)

MaxCalls == 2         \* clicks and flights of the user

\* What the server holds
Files ==
    [substations |-> FeatureCollection(RadiusSubFeatures),
     transmissionLines |-> FeatureCollection(<<TlBase>>),
     queueWithdrawals |-> FeatureCollection(<<ProxQwBase>>),
     lmpNodes |-> FeatureCollection(<<[LmpNode(Num(4200)) EXCEPT !.lat = 276000]>>)]

\* The point the user right-clicks
ClickPoints == {[k |-> "point", longitude |-> -915, latitude |-> 276000]}

MapState ==
    [substationsCache |-> substationsCache,
     transmissionLinesCache |-> transmissionLinesCache,
     queueWithdrawalsCache |-> queueWithdrawalsCache,
     lmpNodesCache |-> lmpNodesCache,
     proximityResult |-> proximityResult,
     proximityLoading |-> proximityLoading,
     radiusCircle |-> radiusCircle,
     proxCalc |-> proxCalc,
     calls |-> calls,
     nextCallId |-> nextCallId,
     downloads |-> downloads,
     rejected |-> rejected,
     completed |-> completed,
     arg |-> arg,
     calc |-> calc,
     result |-> result]

Commit(st) ==
    /\ substationsCache' = st.substationsCache
    /\ transmissionLinesCache' = st.transmissionLinesCache
    /\ queueWithdrawalsCache' = st.queueWithdrawalsCache
    /\ lmpNodesCache' = st.lmpNodesCache
    /\ proximityResult' = st.proximityResult
    /\ proximityLoading' = st.proximityLoading
    /\ radiusCircle' = st.radiusCircle
    /\ proxCalc' = st.proxCalc
    /\ calls' = st.calls
    /\ nextCallId' = st.nextCallId
    /\ downloads' = st.downloads
    /\ rejected' = st.rejected
    /\ completed' = st.completed
    /\ arg' = st.arg
    /\ calc' = st.calc
    /\ result' = st.result
    /\ UNCHANGED <<substationsData, queueWithdrawalsData, lmpNodesData, atcData,
                   ttpSite, ttp, legacyResult>>

\* xCache.current
CacheOf(st, ds) ==
    CASE ds = "substations" -> st.substationsCache
      [] ds = "transmissionLines" -> st.transmissionLinesCache
      [] ds = "queueWithdrawals" -> st.queueWithdrawalsCache
      [] ds = "lmpNodes" -> st.lmpNodesCache

\* xCache.current = await res.json()
SetCache(st, ds, data) ==
    CASE ds = "substations" -> [st EXCEPT !.substationsCache = data]
      [] ds = "transmissionLines" -> [st EXCEPT !.transmissionLinesCache = data]
      [] ds = "queueWithdrawals" -> [st EXCEPT !.queueWithdrawalsCache = data]
      [] ds = "lmpNodes" -> [st EXCEPT !.lmpNodesCache = data]

\* The order of the "if (!xCache.current)" blocks
AnalysisOrder == <<"substations", "transmissionLines", "queueWithdrawals">>
ScoreOrder == <<"substations", "queueWithdrawals", "lmpNodes">>

\* The first block from the j-th on whose cache is empty ("none": no such)
RECURSIVE FirstMissing(_, _, _)
FirstMissing(st, order, j) ==
    IF j > Len(order) THEN "none"
    ELSE IF CacheOf(st, order[j]) = Null THEN order[j]
    ELSE FirstMissing(st, order, j + 1)

\* The block after the one of the data set
BlockAfter(order, ds) == (CHOOSE j \in DOMAIN order : order[j] = ds) + 1

\* await fetch(...): the download starts and the call is suspended
Suspend(st, call, ds) ==
    [st EXCEPT !.calls = @ \cup {[call EXCEPT !.awaiting = ds]},
               !.downloads[ds] = @ + 1]

\* Mutant: requests are numbered and a result is dropped when an analysis
\* issued later has been displayed.
FinishAnalysis_DiscardStale(st, call) ==
    LET locals == ProximityLocals(call.site, call.radiusMiles,
                                  st.substationsCache.features,
                                  st.transmissionLinesCache.features,
                                  st.queueWithdrawalsCache.features)
        entry == [id |-> call.id, site |-> call.site, radiusMiles |-> call.radiusMiles]
    IN  IF \E i \in DOMAIN st.completed : st.completed[i].id > call.id
        THEN [st EXCEPT !.completed = Append(@, entry)]
        ELSE [st EXCEPT !.proxCalc = locals,
                        !.proximityResult =
                            [k |-> "prox", site |-> call.site,
                             radiusMiles |-> call.radiusMiles,
                             substations |-> locals.subResult,
                             transmissionLines |-> locals.tlResult,
                             queueWithdrawals |-> locals.qwResult],
                        !.proximityLoading = FALSE,
                        !.completed = Append(@, entry)]

\* runProximityAnalysis from "// Analyze substations" to its end
FinishAnalysis(st, call) ==
    LET locals == ProximityLocals(call.site, call.radiusMiles,
                                  st.substationsCache.features,
                                  st.transmissionLinesCache.features,
                                  st.queueWithdrawalsCache.features)
        entry == [id |-> call.id, site |-> call.site, radiusMiles |-> call.radiusMiles]
    IN  [st EXCEPT !.proxCalc = locals,
                   !.proximityResult =
                       [k |-> "prox", site |-> call.site,
                        radiusMiles |-> call.radiusMiles,
                        substations |-> locals.subResult,
                        transmissionLines |-> locals.tlResult,
                        queueWithdrawals |-> locals.qwResult],
                   !.proximityLoading = FALSE,
                   !.completed = Append(@, entry)]

\* runProximityAnalysis from its j-th "if (!xCache.current)" block on
ContinueAnalysis(st, call, j) ==
    LET ds == FirstMissing(st, AnalysisOrder, j)
    IN  IF ds = "none" THEN FinishAnalysis(st, call) ELSE Suspend(st, call, ds)

\* runProximityAnalysis(site, radiusMiles) from its start: the loading flag
\* is set and the circle is drawn before the first await
StartAnalysis(st, site, radiusMiles) ==
    LET call == [k |-> "call", id |-> st.nextCallId, fn |-> "runProximityAnalysis",
                 site |-> site, radiusMiles |-> radiusMiles, awaiting |-> "none"]
    IN  ContinueAnalysis([st EXCEPT !.nextCallId = @ + 1,
                                    !.proximityLoading = TRUE,
                                    !.radiusCircle = circle(site, radiusMiles)],
                         call, 1)

\* The features as computeLocationScore reads them, on its grid of 0.1 mile
ScoringView(features) ==
    [i \in DOMAIN features |-> [features[i] EXCEPT !.lat = @ \div 10]]

\* scoreLocation from "var site = computeLocationScore(...)" to its end; the
\* radius is the proximityRadius of the render the call was made in
FinishScore(st, call) ==
    LET lng == call.site.longitude
        lat == call.site.latitude \div 10
        c == Locals(lng, lat, ScoringView(st.substationsCache.features),
                    ScoringView(st.queueWithdrawalsCache.features),
                    FeatureCollection(ScoringView(st.lmpNodesCache.features)), Null)
        site == IF c = Null THEN Null ELSE ScoredSiteOf(lng, lat, c)
        scored == [st EXCEPT !.arg = [k |-> "arg", lng |-> lng, lat |-> lat],
                             !.calc = c, !.result = site]
    IN  IF site = Null THEN scored
        ELSE StartAnalysis(scored, [site EXCEPT !.latitude = call.site.latitude],
                           call.radiusMiles)

\* scoreLocation from its j-th "if (!xCache.current)" block on
ContinueScore(st, call, j) ==
    LET ds == FirstMissing(st, ScoreOrder, j)
    IN  IF ds = "none" THEN FinishScore(st, call) ELSE Suspend(st, call, ds)

\* scoreLocation(lng, lat) from its start
StartScore(st, point, radiusMiles) ==
    LET call == [k |-> "call", id |-> st.nextCallId, fn |-> "scoreLocation",
                 site |-> point, radiusMiles |-> radiusMiles, awaiting |-> "none"]
    IN  ContinueScore([st EXCEPT !.nextCallId = @ + 1], call, 1)

\* The fetch a call awaits is resolved: the cache is assigned and the call
\* runs on
Resolve(st, call) ==
    LET loaded == SetCache([st EXCEPT !.calls = @ \ {call}], call.awaiting,
                           Files[call.awaiting])
    IN  IF call.fn = "runProximityAnalysis"
        THEN ContinueAnalysis(loaded, call, BlockAfter(AnalysisOrder, call.awaiting))
        ELSE ContinueScore(loaded, call, BlockAfter(ScoreOrder, call.awaiting))

\* The fetch a call awaits fails: the await throws, nothing catches it, the
\* call's promise is rejected and nobody handles the rejection
Reject(st, call) ==
    [st EXCEPT !.calls = @ \ {call},
               !.rejected = @ \cup {[id |-> call.id, fn |-> call.fn,
                                     dataSet |-> call.awaiting]}]

----------------------------------------------------------------------------
(* The specification of the loading: nothing is cached, the user flies to   *)
(* sites and right-clicks points, and the fetches are resolved or fail in   *)
(* any order.                                                               *)

InitLoad ==
    /\ MapInitial
    /\ substationsData = <<>>
    /\ queueWithdrawalsData = <<>>
    /\ lmpNodesData = Null
    /\ atcData = Null
    /\ arg = Null
    /\ result = Null
    /\ calc = Null
    /\ ttpSite = Null
    /\ ttp = Null
    /\ legacyResult = Null

\* flyToSite(site) while files may be missing
FlyToSiteCall(site) ==
    /\ nextCallId <= MaxCalls
    /\ Commit(StartAnalysis(MapState, site, proximityRadius))
    /\ UNCHANGED <<proximityRadius, timeouts, cleanup, nextTimeoutId, now,
                   starClickRadius>>

\* The map's contextmenu handler: scoreLocationRef.current(lng, lat)
ScoreLocationCall(point) ==
    /\ nextCallId <= MaxCalls
    /\ Commit(StartScore(MapState, point, proximityRadius))
    /\ UNCHANGED <<proximityRadius, timeouts, cleanup, nextTimeoutId, now,
                   starClickRadius>>

FetchResolves(call) ==
    /\ call \in calls
    /\ Commit(Resolve(MapState, call))
    /\ UNCHANGED <<proximityRadius, timeouts, cleanup, nextTimeoutId, now,
                   starClickRadius>>

FetchFails(call) ==
    /\ call \in calls
    /\ Commit(Reject(MapState, call))
    /\ UNCHANGED <<proximityRadius, timeouts, cleanup, nextTimeoutId, now,
                   starClickRadius>>

NextLoad ==
    \/ \E site \in ProxSites : FlyToSiteCall(site)
    \/ \E point \in ClickPoints : ScoreLocationCall(point)
    \/ \E call \in calls : FetchResolves(call)
    \/ \E call \in calls : FetchFails(call)

\* A fetch is resolved or fails in the end.
SpecLoad ==
    /\ InitLoad
    /\ [][NextLoad]_vars
    /\ WF_vars(\E call \in calls : FetchResolves(call) \/ FetchFails(call))

----------------------------------------------------------------------------
(* The specification of the panel: the files are cached and a result is    *)
(* displayed for a site opened at the initial radius; the user moves the    *)
(* slider, clicks stars, flies to sites, right-clicks points and closes the *)
(* panel, time passes, and pending timers fire.  With the caches filled no  *)
(* call reaches an await: every handler runs to its end in one step.        *)

InitPanel ==
    /\ substationsCache = Files.substations
    /\ transmissionLinesCache = Files.transmissionLines
    /\ queueWithdrawalsCache = Files.queueWithdrawals
    /\ lmpNodesCache = Files.lmpNodes
    /\ proximityRadius = 10
    /\ \E site \in ProxSites :
          /\ proxCalc = ProximityLocals(site, 10, Files.substations.features,
                                        Files.transmissionLines.features,
                                        Files.queueWithdrawals.features)
          /\ proximityResult =
                [k |-> "prox", site |-> site, radiusMiles |-> 10,
                 substations |-> proxCalc.subResult,
                 transmissionLines |-> proxCalc.tlResult,
                 queueWithdrawals |-> proxCalc.qwResult]
    /\ radiusCircle = proxCalc.circlePolygon
    /\ proximityLoading = FALSE
    /\ timeouts = {}
    /\ cleanup = Null
    /\ nextTimeoutId = 1
    /\ now = 0
    /\ starClickRadius = 10
    /\ calls = {}
    /\ nextCallId = 1
    /\ downloads = [ds \in DataSets |-> 1]
    /\ rejected = {}
    /\ completed = <<>>
    /\ substationsData = <<>>
    /\ queueWithdrawalsData = <<>>
    /\ lmpNodesData = Null
    /\ atcData = Null
    /\ arg = Null
    /\ result = Null
    /\ calc = Null
    /\ ttpSite = Null
    /\ ttp = Null
    /\ legacyResult = Null

\* The click handler of the scored-sites layer: it is registered once (the
\* effect's later runs return at "if (map.getSource(SCORED_SITES_SOURCE))
\* return"), so its runProximityAnalysis(site, proximityRadius) reads the
\* proximityRadius of the render that registered it.
StarClick(site) ==
    /\ RunProximityAnalysis(site, starClickRadius)
    /\ UNCHANGED <<proximityRadius, timeouts, cleanup, nextTimeoutId, now>>
    /\ UNCHANGED loadVars
    /\ UNCHANGED scoringVars

\* The contextmenu handler calls scoreLocationRef.current, the scoreLocation
\* of the last render: the point is scored and, if there is a score,
\* analysed with the slider's radius.
ScoreLocation(point) ==
    LET lng == point.longitude
        lat == point.latitude \div 10
        c == Locals(lng, lat, ScoringView(substationsCache.features),
                    ScoringView(queueWithdrawalsCache.features),
                    FeatureCollection(ScoringView(lmpNodesCache.features)), Null)
        site == IF c = Null THEN Null ELSE ScoredSiteOf(lng, lat, c)
    IN  /\ substationsCache # Null
        /\ queueWithdrawalsCache # Null
        /\ lmpNodesCache # Null
        /\ arg' = [k |-> "arg", lng |-> lng, lat |-> lat]
        /\ calc' = c
        /\ result' = site
        /\ IF site = Null
           THEN UNCHANGED <<proximityResult, proximityLoading, substationsCache,
                            transmissionLinesCache, queueWithdrawalsCache,
                            radiusCircle, proxCalc>>
           ELSE RunProximityAnalysis([site EXCEPT !.latitude = point.latitude],
                                     proximityRadius)
        /\ UNCHANGED <<proximityRadius, timeouts, cleanup, nextTimeoutId, now>>
        /\ UNCHANGED loadVars
        /\ UNCHANGED <<substationsData, queueWithdrawalsData, lmpNodesData, atcData,
                       ttpSite, ttp, legacyResult>>

\* clearProximityAnalysis: the circle's layers and source are removed and
\* the result is set to null; a pending timer is left alone
ClearProximityAnalysis ==
    /\ proximityResult' = Null
    /\ radiusCircle' = Null
    /\ UNCHANGED <<proximityRadius, proximityLoading, substationsCache,
                   transmissionLinesCache, queueWithdrawalsCache, proxCalc,
                   timeouts, cleanup, nextTimeoutId, now>>
    /\ UNCHANGED loadVars
    /\ UNCHANGED scoringVars

\* The slider and the close button are rendered with the panel, that is
\* while a result is displayed.
NextPanel ==
    \/ \E value \in Radii : proximityResult # Null /\ SetProximityRadius(value)
    \/ proximityResult # Null /\ ClearProximityAnalysis
    \/ \E site \in ProxSites : StarClick(site)
    \/ \E site \in ProxSites : FlyToSite(site)
    \/ \E point \in ClickPoints : ScoreLocation(point)
    \/ Tick
    \/ \E timeout \in timeouts : TimeoutFires(timeout)

\* Time passes, and a timer that is due fires.
SpecPanel ==
    /\ InitPanel
    /\ [][NextPanel]_vars
    /\ WF_vars(Tick)
    /\ WF_vars(\E timeout \in timeouts : TimeoutFires(timeout))

----------------------------------------------------------------------------
(* Claims about computeLocationScore (specification Spec) *)

Called == arg # Null

\* MAX_VOLT >= 345, as JavaScript evaluates it on the property value
C1_VoltAtLeast345(p) == p.k # "absent" /\ Ge(Number(p), 345)

C1_HasQualifyingPoint ==
    \E i \in DOMAIN substationsData :
        /\ substationsData[i].type = "Point"
        /\ C1_VoltAtLeast345(substationsData[i].MAX_VOLT)

\* C1: computeLocationScore returns null exactly when the substations data
\* set holds no Point feature with MAX_VOLT >= 345, and a ScoredSite whenever
\* it holds one, for every query point and every queue-withdrawal data set.
C1_NullIffNoQualifyingSubstation ==
    Called => ((result = Null) <=> ~C1_HasQualifyingPoint)

\* Every property the function converts with Number() is absent or a number
\* or a numeric string.
C2_Numeric(p) == p.k = "absent" \/ ~IsNaN(Number(p))

C2_NumericInputs ==
    /\ \A i \in DOMAIN substationsData :
          C2_Numeric(substationsData[i].MAX_VOLT) /\ C2_Numeric(substationsData[i].LINES)
    /\ \A i \in DOMAIN queueWithdrawalsData : C2_Numeric(queueWithdrawalsData[i].total_mw)
    /\ lmpNodesData # Null =>
          \A i \in DOMAIN lmpNodesData.features : C2_Numeric(lmpNodesData.features[i].avg_lmp)
    /\ atcData # Null =>
          \A i \in DOMAIN atcData.features : C2_Numeric(atcData.features[i].avg_atc_mw)

C2_Scores(s) ==
    {s.composite_score, s.time_to_power, s.site_readiness, s.connectivity,
     s.risk_factors, s.sub_distance_score, s.sub_voltage_score,
     s.gen_capacity_score, s.tx_lines_score, s.queue_withdrawal_score,
     s.fuel_type_score, s.capacity_scale_score, s.longitude_score,
     s.latitude_score, s.broadband_score, s.contamination_score,
     s.operational_status_score, s.flood_zone_score, s.lmp_score, s.atc_score}

\* C2: for numeric feature properties, any query point and any data sets with
\* a qualifying substation, the composite score, the four dimension scores
\* and every sub-score of the returned ScoredSite lie in [0,100] and are
\* multiples of 0.1.
C2_ScoresInRangeOneDecimal ==
    (C2_NumericInputs /\ result # Null) =>
        \A v \in C2_Scores(result) : 0 <= v /\ v <= 100000 /\ v % 100 = 0

\* a site whose queue score needed rounding (36.332 -> 36.3) and whose
\* longitude score was clamped at 0 (180 W)
C2_Witness ==
    /\ C2_NumericInputs
    /\ result # Null
    /\ calc.qwScore % 100 # 0
    /\ result.longitude_score = 0
    /\ result.composite_score > 0

\* The composite of the claim, from dimension values in 1e-5 point:
\* weighted sum, clamp to [0,100], round to one decimal (in thousandths).
C3_Expected(ttpv, sr, conn, risk) ==
    LET sum == 50 * ttpv + 20 * sr + 15 * conn + 15 * risk
        clamped == IF sum < 0 THEN 0 ELSE IF sum > 1000000000 THEN 1000000000 ELSE sum
    IN  ((clamped + 500000) \div 1000000) * 100

C3_NoNaN == ~IsNaN(calc.timeToPower) /\ ~IsNaN(calc.connectivity) /\ ~IsNaN(calc.riskFactors)

ProbeScores == {0, 100, 33300, 50000, 70000, 99900, 100000}

\* the values the weights are probed with: fixed ones, and every score of the
\* site last returned
C5_Values ==
    ProbeScores \cup (IF result = Null THEN {}
                      ELSE {v \in C2_Scores(result) : ~IsNaN(v)})

\* C5: the sub-weights of Time to Power, Connectivity and Risk Factors and the
\* four composite weights each sum to 1.0: equal sub-scores v give a dimension
\* score v, and equal dimension scores v give a composite v.
C5_WeightsSumToOne ==
    \A v \in C5_Values :
        /\ TimeToPower(v, v, v, v, v, v) = 100 * v
        /\ Connectivity(v, v, v) = 100 * v
        /\ RiskFactors(v, v) = 100 * v
        /\ Composite(100 * v, 100 * v, 100 * v, 100 * v) = 10000 * v
        /\ RoundComposite(Composite(100 * v, 100 * v, 100 * v, 100 * v)) = r(v)

\* a site whose distance and lines sub-scores are both 100 and whose Time to
\* Power lies between its smallest and largest sub-score
C5_Witness ==
    /\ result # Null
    /\ calc.distScore = 100000 /\ calc.linesScore = 100000
    /\ calc.timeToPower > 100 * 30000 /\ calc.timeToPower < 100 * 100000


\* The queue score of the claim from a count and a total MW (thousandths)
C9_Expected(count, totalMW) ==
    IF count = 0 THEN 30000
    ELSE LET c1 == 30000 + 5000 * count
             countScore == IF c1 < 30000 THEN 30000 ELSE IF c1 > 100000 THEN 100000 ELSE c1
             b1 == 4 * totalMW
             mwBonus == IF b1 < 0 THEN 0 ELSE IF b1 > 20000 THEN 20000 ELSE b1
             sum == countScore + mwBonus
         IN  IF sum < 0 THEN 0 ELSE IF sum > 100000 THEN 100000 ELSE sum

\* the Point withdrawals within 20 miles of the query point
C9_Within20 ==
    {i \in DOMAIN queueWithdrawalsData :
        /\ queueWithdrawalsData[i].type = "Point"
        /\ queueWithdrawalsData[i].lat - arg.lat <= 200
        /\ arg.lat - queueWithdrawalsData[i].lat <= 200}

\* C9: the queue-withdrawal score is exactly 30 when no withdrawal lies within
\* 20 miles; otherwise it is clamp(0,100, clamp(30,100, 30 + count*5) +
\* clamp(0,20, totalMW/5000*20)): 5 withdrawals of 0 MW in total give 55, 5
\* withdrawals of 5000 MW in total give 75.  The ScoredSite carries the value
\* rounded to one decimal.
C9_QueueWithdrawalScore ==
    (result # Null /\ ~IsNaN(calc.qwTotalMW)) =>
        /\ calc.qwCount = Cardinality(C9_Within20)
        /\ C9_Within20 = {} => result.queue_withdrawal_score = 30000
        /\ calc.qwScore = C9_Expected(calc.qwCount, calc.qwTotalMW)
        /\ result.queue_withdrawal_score = ((calc.qwScore + 50) \div 100) * 100
        /\ (calc.qwCount = 5 /\ calc.qwTotalMW = 0) => result.queue_withdrawal_score = 55000
        /\ (calc.qwCount = 5 /\ calc.qwTotalMW = 5000) => result.queue_withdrawal_score = 75000

\* five withdrawals of 1000 MW each at the query point: 55 + 20 = 75
C9_Witness ==
    /\ result # Null
    /\ Cardinality(C9_Within20) = 5
    /\ calc.qwTotalMW = 5000
    /\ result.queue_withdrawal_score = 75000

ProbeMiles == {0, 1, 100, 249, 250, 251, 499, 500, 501, 600, 6400}

C11_Lines(p) == IF p.k = "absent" THEN 0 ELSE Number(p)

C12_Steps ==
    <<[upTo |-> 2000, score |-> 95000], [upTo |-> 2500, score |-> 90000],
      [upTo |-> 3000, score |-> 80000], [upTo |-> 3500, score |-> 70000],
      [upTo |-> 4000, score |-> 60000], [upTo |-> 4500, score |-> 50000],
      [upTo |-> 5000, score |-> 40000], [upTo |-> 5500, score |-> 30000]>>

C12_Expected(p) ==
    LET hits == {i \in DOMAIN C12_Steps : p <= C12_Steps[i].upTo}
    IN  IF hits = {} THEN 20000
        ELSE C12_Steps[CHOOSE i \in hits : \A j \in hits : i <= j].score

\* C12: computeLmpScore is a non-increasing step function of the average price
\* with inclusive upper boundaries (<=20 gives 95, <=25 90, <=30 80, <=35 70,
\* <=40 60, <=45 50, <=50 40, <=55 30, otherwise 20): the nearest node's price
\* 42 gives 50, 45.00 gives 50 and 45.01 gives 40.
C12_LmpStepFunction ==
    (result # Null /\ calc.lmpResult # Null /\ ~IsNaN(calc.lmpResult.avgLmp)) =>
        LET p == calc.lmpResult.avgLmp
        IN  /\ calc.lmpResult.lmpScore = C12_Expected(p)
            /\ result.lmp_score = C12_Expected(p)
            /\ \A q \in LmpStepPrices :
                  /\ q <= p => computeLmpScore(q) >= calc.lmpResult.lmpScore
                  /\ q >= p => computeLmpScore(q) <= calc.lmpResult.lmpScore
            /\ p = 4200 => result.lmp_score = 50000
            /\ p = 4500 => result.lmp_score = 50000
            /\ p = 4501 => result.lmp_score = 40000

\* a node priced exactly on the 45.00 boundary scores 50
C12_Witness ==
    /\ result # Null
    /\ calc.lmpResult # Null
    /\ calc.lmpResult.avgLmp = 4500
    /\ result.lmp_score = 50000

\* The steps of the claim: from each transfer capability (MW) on, the score
C13_Steps ==
    <<[from |-> 500, score |-> 95000], [from |-> 300, score |-> 85000],
      [from |-> 200, score |-> 75000], [from |-> 100, score |-> 60000],
      [from |-> 50, score |-> 45000], [from |-> 25, score |-> 30000]>>

C13_Expected(m) ==
    LET hits == {i \in DOMAIN C13_Steps : m >= C13_Steps[i].from}
    IN  IF hits = {} THEN 20000
        ELSE C13_Steps[CHOOSE i \in hits : \A j \in hits : i <= j].score

\* C13: computeAtcScore is a non-decreasing step function of the average
\* transfer capability with inclusive lower boundaries (>=500 gives 95, >=300
\* 85, >=200 75, >=100 60, >=50 45, >=25 30, otherwise 20): 275 MW gives 75
\* and 300 MW gives 85.
C13_AtcStepFunction ==
    (result # Null /\ calc.atcResult # Null /\ ~IsNaN(calc.atcResult.avgAtcMw)) =>
        LET m == calc.atcResult.avgAtcMw
        IN  /\ calc.atcResult.atcScore = C13_Expected(m)
            /\ result.atc_score = C13_Expected(m)
            /\ \A q \in AtcStepMws :
                  /\ q <= m => computeAtcScore(q) <= calc.atcResult.atcScore
                  /\ q >= m => computeAtcScore(q) >= calc.atcResult.atcScore
            /\ m = 275 => result.atc_score = 75000
            /\ m = 300 => result.atc_score = 85000

\* an interface of exactly 300 MW scores 85
C13_Witness ==
    /\ result # Null
    /\ calc.atcResult # Null
    /\ calc.atcResult.avgAtcMw = 300
    /\ result.atc_score = 85000

\* the pricing data set is not supplied, or holds no Point node
C14_NoLmpMatch ==
    \/ lmpNodesData = Null
    \/ \A i \in DOMAIN lmpNodesData.features : lmpNodesData.features[i].type # "Point"

C14_NoAtcMatch ==
    \/ atcData = Null
    \/ \A i \in DOMAIN atcData.features : atcData.features[i].type # "Point"

\* C14: when the pricing data set is unavailable or holds no matching node,
\* computeLocationScore still returns a ScoredSite and the price is taken as
\* 40 $/MWh, giving lmp_score 60; an absent ATC data set likewise yields a
\* neutral atc_score and no failure.
C14_NeutralDefaults ==
    /\ (Called /\ C1_HasQualifyingPoint) => result # Null
    /\ (result # Null /\ C14_NoAtcMatch) =>
          (~IsNaN(result.atc_score) /\ 0 <= result.atc_score /\ result.atc_score <= 100000)
    /\ (result # Null /\ C14_NoLmpMatch) => result.lmp_score = 60000

\* C15: every ScoredSite returned has nearest_sub_voltage_kv >= 345 and a
\* sub_voltage_score of 100 (>= 765 kV), 85 (>= 500 kV) or 70 (>= 345 kV), never
\* the fallback 60, whatever MAX_VOLT values the features carry (numbers,
\* numeric strings, absent, non-numeric strings).
C15_OnlyQualifyingVoltage ==
    result # Null =>
        LET kv == result.nearest_sub_voltage_kv
        IN  /\ ~IsNaN(kv) /\ kv >= 345
            /\ result.sub_voltage_score =
                  IF kv >= 765 THEN 100000 ELSE IF kv >= 500 THEN 85000 ELSE 70000

\* C16: for an unknown location flood_zone_score is 35 exactly when
\* isCoastalLocation holds for the point and the nearest substation's state
\* (LA: latitude < 31.0 or longitude < -91.0; FL: always), 65 exactly when it
\* is not coastal and the state is in MODERATE_FLOOD_STATES, 90 otherwise; and
\* risk_factors is contamination (70) * 0.65 + flood * 0.35, to one decimal.
C16_FloodAndRisk ==
    result # Null =>
        LET st == result.state
            coastal == isCoastalLocation(arg.lat, arg.lng, st)
            moderate == st \in {"NJ", "DE", "MD", "VA", "GA", "CT", "RI", "MA", "HI"}
            flood == result.flood_zone_score
        IN  /\ st = calc.bestSub.state
            /\ st = "LA" => (coastal <=> (LatLt(arg.lat, 310) \/ arg.lng < -910))
            /\ st = "FL" => coastal
            /\ flood \in {35000, 65000, 90000}
            /\ (flood = 35000) <=> coastal
            /\ (flood = 65000) <=> (~coastal /\ moderate)
            /\ result.contamination_score = 70000
            /\ calc.riskFactors = 65 * 70000 + 35 * flood
            /\ result.risk_factors = ((65 * 70000 + 35 * flood + 5000) \div 10000) * 100

\* a Louisiana substation scored from 40.3 N, 91.5 W: coastal by longitude
C16_Witness ==
    /\ result # Null
    /\ result.state = "LA"
    /\ arg.lng = -915 /\ ~LatLt(arg.lat, 310)
    /\ result.flood_zone_score = 35000
    /\ result.risk_factors = 57800

\* the qualifying records of the substations data set and their distances
C17_Qualifying ==
    {i \in DOMAIN substationsData :
        /\ substationsData[i].type = "Point"
        /\ C1_VoltAtLeast345(substationsData[i].MAX_VOLT)}

C17_Dist(features, i) == MathAbs(features[i].lat - arg.lat)

\* the first of the records of I at the least distance
C17_FirstNearest(features, I) ==
    CHOOSE i \in I : \A j \in I :
        \/ C17_Dist(features, i) < C17_Dist(features, j)
        \/ (C17_Dist(features, i) = C17_Dist(features, j) /\ i <= j)

C17_LmpPoints ==
    IF lmpNodesData = Null THEN {}
    ELSE {i \in DOMAIN lmpNodesData.features : lmpNodesData.features[i].type = "Point"}

\* C17: the nearest-substation search returns a qualifying record at the
\* least distance among the qualifying records, the first of them in the data
\* set's order when several are at that distance; findNearestLmpNode does the
\* same among the Point nodes.
C17_NearestFirstOnTies ==
    /\ (Called /\ C17_Qualifying # {}) =>
          LET sf == substationsData[C17_FirstNearest(substationsData, C17_Qualifying)]
          IN  /\ result # Null
              /\ calc.bestDist = MathAbs(sf.lat - arg.lat)
              /\ calc.bestSub.name = sf.NAME
              /\ calc.bestSub.maxVolt = Number(sf.MAX_VOLT)
              /\ calc.bestSub.state = sf.State
    /\ (result # Null /\ C17_LmpPoints # {}) =>
          calc.lmpResult.name =
              lmpNodesData.features[C17_FirstNearest(lmpNodesData.features, C17_LmpPoints)].name

\* C23: a missing or malformed feature property never makes
\* computeLocationScore fail as a whole: when no substation carries LINES the
\* site has 0 connected lines and tx_lines_score 0, when no withdrawal
\* carries total_mw the withdrawn MW are 0, and for any property values
\* (absent, numeric strings, non-numeric strings) no score of a returned
\* ScoredSite is NaN.
C23_NoNaNScore ==
    (Called /\ result # Null) =>
        /\ (\A i \in DOMAIN substationsData : substationsData[i].LINES.k = "absent")
              => (result.nearest_sub_lines = 0 /\ result.tx_lines_score = 0)
        /\ (\A i \in DOMAIN queueWithdrawalsData :
                queueWithdrawalsData[i].total_mw.k = "absent")
              => result.queue_mw_20mi = 0
        /\ \A v \in C2_Scores(result) : ~IsNaN(v)

\* C29: for every ScoredSite computeLocationScore returns,
\* queue_withdrawal_score > 30 holds exactly when queue_count_20mi >= 1: with
\* a withdrawal counted the score is at least 35, whatever the total MW
\* (zero and negative totals included).
C29_CapacitySignalIffCounted ==
    (Called /\ result # Null) =>
        /\ Gt(result.queue_withdrawal_score, 30000) <=> (result.queue_count_20mi >= 1)
        /\ result.queue_count_20mi >= 1 => Ge(result.queue_withdrawal_score, 35000)

----------------------------------------------------------------------------
(* Claims about estimateTimeToPower (specification SpecTtp) *)

Classified == ttp # Null

\* comparisons of the claims on a score that may be NaN
C7_AtLeast(x, n) == ~IsNaN(x) /\ x >= n
C7_Above(x, n) == ~IsNaN(x) /\ x > n
C8_Below(x, n) == ~IsNaN(x) /\ x < n
C8_AtMost(x, n) == ~IsNaN(x) /\ x <= n

C7_GreenCondition(s) ==
    /\ s.status \in {"retired", "retiring"}
    /\ C7_AtLeast(s.sub_distance_score, 80000)
    /\ C7_AtLeast(s.tx_lines_score, 25000)
    /\ C7_Above(s.queue_withdrawal_score, 30000)

\* C7: estimateTimeToPower returns green if and only if the status is retired
\* or retiring and the distance score is >= 80 and the lines score is >= 25
\* and the queue score is > 30; a retired plant with distance 85, lines 37.5
\* and queue 55 is green.
C7_GreenIff ==
    Classified =>
        /\ (ttp.tier = "green") <=> C7_GreenCondition(ttpSite)
        /\ (ttpSite.status = "retired" /\ ttpSite.sub_distance_score = 85000
              /\ ttpSite.tx_lines_score = 37500
              /\ ttpSite.queue_withdrawal_score = 55000) => ttp.tier = "green"

C7_Witness ==
    /\ Classified
    /\ ttpSite.status = "retired"
    /\ ttpSite.sub_distance_score = 85000
    /\ ttpSite.tx_lines_score = 37500
    /\ ttpSite.queue_withdrawal_score = 55000
    /\ ttp.tier = "green"

C8_RedCondition(s) ==
    \/ C8_Below(s.sub_distance_score, 50000)
    \/ /\ C8_Below(s.tx_lines_score, 25000)
       /\ C8_AtMost(s.queue_withdrawal_score, 30000)

\* C8: estimateTimeToPower returns red if and only if the distance score is
\* < 50 or (the lines score is < 25 and the queue score is <= 30), for every
\* status and every other field value; it returns yellow in every remaining
\* case and never a value outside green, yellow, red.
C8_RedIffElseYellow ==
    Classified =>
        /\ ttp.tier \in {"green", "yellow", "red"}
        /\ (ttp.tier = "red") <=> C8_RedCondition(ttpSite)
        /\ (ttp.tier = "yellow") <=>
              (~C8_RedCondition(ttpSite) /\ ~C7_GreenCondition(ttpSite))

\* the retired plant of C7 at distance score 40: red
C8_Witness ==
    /\ Classified
    /\ ttpSite.status = "retired"
    /\ ttpSite.sub_distance_score = 40000
    /\ ttpSite.tx_lines_score = 37500
    /\ ttpSite.queue_withdrawal_score = 55000
    /\ ttp.tier = "red"

----------------------------------------------------------------------------
(* Claims about the right-click popup (specification SpecPopup) *)

\* C28: a ScoredSite produced by computeLocationScore has status "custom"
\* and estimateTimeToPower never classifies it green: for every query point
\* and every data set the tier of a right-click scored location is yellow
\* or red.
C28_CustomNeverGreen ==
    ttp # Null =>
        /\ ttpSite.status = "custom"
        /\ ttp.tier \in {"yellow", "red"}

\* a scored location within 10 miles of its substation, with at least two
\* lines and a withdrawal nearby (green, were it a retired plant): yellow
C28_Witness ==
    /\ ttp # Null
    /\ ttpSite = result
    /\ result.sub_distance_score >= 80000
    /\ result.tx_lines_score >= 25000
    /\ result.queue_withdrawal_score > 30000
    /\ ttp.tier = "yellow"

----------------------------------------------------------------------------
(* Claims about the two versions of computeLocationScore (specification    *)
(* SpecVersions)                                                            *)

\* C30: called on the same query point, substations and queue withdrawals,
\* the six-argument version without LMP and ATC data, the two versions of
\* computeLocationScore both return null or both return a ScoredSite, and
\* the two ScoredSites have the same value in every field both define,
\* time_to_power and composite_score included.
C30_VersionsAgree ==
    Called =>
        /\ (legacyResult = Null) <=> (result = Null)
        /\ legacyResult # Null =>
              \A f \in DOMAIN legacyResult : legacyResult[f] = result[f]

----------------------------------------------------------------------------
(* Claims about runProximityAnalysis (specification SpecProx) *)

Analyzed == proximityResult # Null

\* the Point features of a file within the displayed radius of the displayed site
C18_Counted(features) ==
    {i \in DOMAIN features :
        /\ features[i].type = "Point"
        /\ features[i].lat - proximityResult.site.latitude <= 100 * proximityResult.radiusMiles
        /\ proximityResult.site.latitude - features[i].lat <= 100 * proximityResult.radiusMiles}

\* MAX_VOLT and total_mw as the claim reads them: missing is 0
C18_Value(p) == IF p.k = "absent" THEN 0 ELSE Number(p)

RECURSIVE C18_Sum(_, _)
C18_Sum(features, I) ==
    IF I = {} THEN 0
    ELSE LET i == CHOOSE j \in I : TRUE
         IN  C18_Value(features[i].total_mw) + C18_Sum(features, I \ {i})

\* C18: runProximityAnalysis counts a substation or a queue withdrawal if and
\* only if it is a Point feature at a distance <= radius (the boundary
\* included); every counted substation is in exactly one voltage tier (>= 500,
\* 345-499, 230-344, < 230, a missing MAX_VOLT being 0), so that total is the
\* sum of the four tiers; totalWithdrawnMW is the sum of total_mw over the
\* counted withdrawals.  A voltage that is no number is counted in the lowest
\* tier, and a total_mw that is no number makes the sum NaN.
C18_CountsWithinRadius ==
    Analyzed =>
        LET subs == C18_Counted(substationsCache.features)
            qws == C18_Counted(queueWithdrawalsCache.features)
            volt(i) == C18_Value(substationsCache.features[i].MAX_VOLT)
            sr == proximityResult.substations
            qr == proximityResult.queueWithdrawals
        IN  /\ sr.total = Cardinality(subs)
            /\ sr.by500Plus = Cardinality({i \in subs : ~IsNaN(volt(i)) /\ volt(i) >= 500})
            /\ sr.by345to499 =
                  Cardinality({i \in subs : ~IsNaN(volt(i)) /\ volt(i) >= 345 /\ volt(i) < 500})
            /\ sr.by230to344 =
                  Cardinality({i \in subs : ~IsNaN(volt(i)) /\ volt(i) >= 230 /\ volt(i) < 345})
            /\ sr.byUnder230 = Cardinality({i \in subs : IsNaN(volt(i)) \/ volt(i) < 230})
            /\ sr.total = sr.by500Plus + sr.by345to499 + sr.by230to344 + sr.byUnder230
            /\ qr.total = Cardinality(qws)
            /\ IF \E i \in qws : IsNaN(C18_Value(queueWithdrawalsCache.features[i].total_mw))
               THEN IsNaN(qr.totalWithdrawnMW)
               ELSE qr.totalWithdrawnMW = C18_Sum(queueWithdrawalsCache.features, qws)

\* a substation exactly on the radius is counted, one 0.01 mile beyond is not
C18_Witness ==
    /\ Analyzed
    /\ Len(substationsCache.features) = 2
    /\ substationsCache.features[1].lat - proximityResult.site.latitude = 100 * proximityResult.radiusMiles
    /\ substationsCache.features[2].lat = substationsCache.features[1].lat + 1
    /\ proximityResult.substations.total = 1
    /\ proximityResult.queueWithdrawals.total = 1
    /\ proximityResult.queueWithdrawals.totalWithdrawnMW = 1000

\* the line features of the file, their vertices, and the two stages
C19_Lines ==
    {i \in DOMAIN transmissionLinesCache.features :
        transmissionLinesCache.features[i].type \in {"LineString", "MultiLineString"}}

C19_Vertices(i) ==
    UNION {{transmissionLinesCache.features[i].coordinates[p][c] :
                c \in DOMAIN transmissionLinesCache.features[i].coordinates[p]} :
            p \in DOMAIN transmissionLinesCache.features[i].coordinates}

\* a vertex within radius / 69.0 degrees of the site's latitude
C19_VertexInBox(i) ==
    \E v \in C19_Vertices(i) :
        /\ (v - proximityResult.site.latitude) * 690
               <= proximityResult.radiusMiles * HundredthsPerTenDegrees
        /\ (proximityResult.site.latitude - v) * 690
               <= proximityResult.radiusMiles * HundredthsPerTenDegrees

C19_Intersects(i) == booleanIntersects(transmissionLinesCache.features[i], radiusCircle)

C19_Voltage(i) == C18_Value(transmissionLinesCache.features[i].VOLTAGE)

\* C19: a transmission line whose vertices all lie outside the radius
\* bounding box is excluded without the exact intersection test being
\* evaluated; a line with a vertex inside the box whose geometry does not
\* intersect the circle polygon is excluded after the exact test; only the
\* lines passing both stages are tallied, each in exactly one voltage tier.
C19_TwoStageLineTest ==
    Analyzed =>
        LET tallied == {i \in C19_Lines : C19_VertexInBox(i) /\ C19_Intersects(i)}
            tr == proximityResult.transmissionLines
        IN  /\ radiusCircle.site = proximityResult.site
            /\ radiusCircle.radiusMiles = proximityResult.radiusMiles
            /\ proxCalc.tested = {i \in C19_Lines : C19_VertexInBox(i)}
            /\ tr.total = Cardinality(tallied)
            /\ tr.by500Plus =
                  Cardinality({i \in tallied : ~IsNaN(C19_Voltage(i)) /\ C19_Voltage(i) >= 500})
            /\ tr.by345to499 =
                  Cardinality({i \in tallied : ~IsNaN(C19_Voltage(i))
                                  /\ C19_Voltage(i) >= 345 /\ C19_Voltage(i) < 500})
            /\ tr.by230to344 =
                  Cardinality({i \in tallied : ~IsNaN(C19_Voltage(i))
                                  /\ C19_Voltage(i) >= 230 /\ C19_Voltage(i) < 345})
            /\ tr.total = tr.by500Plus + tr.by345to499 + tr.by230to344 + tr.byUnder230

\* one line crossing the circle with both ends outside the box (never given
\* to the exact test), one with a vertex in the box 0.01 mile outside the
\* circle (rejected by the exact test): nothing is tallied
C19_Witness ==
    /\ Analyzed
    /\ \E i \in C19_Lines : ~C19_VertexInBox(i) /\ C19_Intersects(i) /\ i \notin proxCalc.tested
    /\ \E i \in C19_Lines : C19_VertexInBox(i) /\ ~C19_Intersects(i) /\ i \in proxCalc.tested
    /\ proximityResult.transmissionLines.total = 0

\* C27: the bounding-box prefilter is conservative: every LineString or
\* MultiLineString whose geometry intersects the circle polygon has a vertex
\* inside the bounding box, so every line the exact test would accept is
\* tallied (a long segment crossing the circle with both ends outside the
\* box included).
C27_PrefilterConservative ==
    Analyzed =>
        LET accepted == {i \in C19_Lines : C19_Intersects(i)}
        IN  /\ \A i \in accepted :
                  InBbox(LineCoords(transmissionLinesCache.features[i]),
                         proximityResult.site, proximityResult.radiusMiles)
            /\ proximityResult.transmissionLines.total = Cardinality(accepted)

----------------------------------------------------------------------------
(* Claims about the radius effect (specification SpecRadius) *)

\* the timer set by the last radius change
C20_LastSet(timeout) == timeout = cleanup

\* C20: while a result is displayed, at most one timer is pending, the one
\* the last radius change set; runProximityAnalysis is invoked by a timer
\* only when 300 ms have passed since the last radius change, with the
\* slider's current radius and the displayed site, and that timer is then
\* gone (no second invocation follows without a further change); a pending
\* timer leads to a state with no timer pending where the displayed result
\* is the one for the slider's radius.
C20_Debounced ==
    /\ [](Cardinality(timeouts) <= 1)
    /\ [](timeouts = {} => proximityResult.radiusMiles = proximityRadius)
    /\ [][\A timeout \in timeouts :
              TimeoutFires(timeout) =>
                  /\ C20_LastSet(timeout)
                  /\ now >= (timeout.due - DebounceSteps) + DebounceSteps
                  /\ timeout.radiusMiles = proximityRadius
                  /\ timeout.site = proximityResult.site
                  /\ timeouts' = {}
                  /\ proximityResult'.radiusMiles = proximityRadius
                  /\ proximityResult'.site = proximityResult.site]_vars
    /\ ((timeouts # {}) ~>
           (timeouts = {} /\ proximityResult.radiusMiles = proximityRadius))

\* the slider went through an intermediate radius (two timers were set, the
\* first one cleared), and the second timer has fired: the result is the
\* one for the last radius, which differs from the initial one
C20_Witness ==
    /\ nextTimeoutId = 3
    /\ timeouts = {}
    /\ cleanup # Null
    /\ cleanup.id = 2
    /\ proximityResult.radiusMiles = cleanup.radiusMiles
    /\ proximityResult.radiusMiles # 10
    /\ proximityResult.substations.total # 1

----------------------------------------------------------------------------
(* Claims about the loading of the files (specification SpecLoad) *)

\* C21: each data set (substations, transmission lines, queue withdrawals,
\* LMP nodes) is downloaded at most once in a session, whatever the
\* interleaving of scoreLocation and runProximityAnalysis calls: a call
\* issued while the first load is in flight shares that fetch and starts no
\* second download.
C21_FetchedAtMostOnce ==
    \A ds \in DataSets : downloads[ds] <= 1

\* a call was rejected because the fetch of a required data set failed
C22_RequiredFetchFailed ==
    \E x \in rejected : x.dataSet \in {"substations", "queueWithdrawals"}

\* C22: once the fetch of a required data set (substations or queue
\* withdrawals) has failed during scoreLocation or runProximityAnalysis,
\* scoring is unavailable for the rest of the session: no score and no
\* proximity result is displayed from then on.
C22_FailureSurfaces ==
    C22_RequiredFetchFailed =>
        /\ proximityResult = Null
        /\ result = Null

\* C24: analyses carry no request sequencing: whenever an analysis reaches
\* setProximityResult its result is displayed, whatever was issued after it,
\* so the displayed ProximityResult is that of the analysis that completed
\* last (it can be one issued before an analysis that completed earlier).
C24_LastCompletedDisplayed ==
    completed # <<>> =>
        LET last == completed[Len(completed)]
        IN  /\ proximityResult # Null
            /\ proximityResult.site = last.site
            /\ proximityResult.radiusMiles = last.radiusMiles

\* an analysis issued earlier completed after one issued later, for another
\* site, and its result is the one displayed
C24_Witness ==
    /\ Len(completed) >= 2
    /\ \E i \in 1..(Len(completed) - 1) :
          /\ completed[i].id > completed[Len(completed)].id
          /\ completed[i].site # completed[Len(completed)].site
    /\ proximityResult # Null
    /\ proximityResult.site = completed[Len(completed)].site
    /\ calls = {}

----------------------------------------------------------------------------
(* Claims about the panel (specification SpecPanel) *)

\* C25: whenever no debounce timer is pending and no analysis is in flight,
\* the radius of the displayed ProximityResult is the slider's value, for
\* every sequence of slider changes, star clicks, flyToSite calls and
\* right-click scorings.
C25_DisplayedRadiusIsSlider ==
    (timeouts = {} /\ calls = {} /\ proximityResult # Null) =>
        proximityResult.radiusMiles = proximityRadius

\* a step the user does not take: time passing, a timer firing
C26_NoUserStep == Tick \/ \E timeout \in timeouts : TimeoutFires(timeout)

\* C26: after clearProximityAnalysis the result stays null and the circle
\* stays removed until the user clicks a site, flies to a site or
\* right-clicks: a timer that was pending at the time of the clear does not
\* re-create them.
C26_StaysCleared ==
    [][(proximityResult = Null /\ radiusCircle = Null /\ C26_NoUserStep)
          => (proximityResult' = Null /\ radiusCircle' = Null)]_vars

====
